---- MODULE Spec2Model ----
(***************************************************************************)
(* Orion: permission sandbox, gated system operations, confirmation        *)
(* round-trip, thread manager, trigger engine, proactive daemon and        *)
(* provider routing, modelled from the Python sources.                     *)
(*                                                                         *)
(* Strings whose characters matter (paths, commands, reply texts) are      *)
(* sequences of one-character strings; a missing dictionary key that the   *)
(* code reads with .get(key, "") is the empty sequence.                    *)
(***************************************************************************)
EXTENDS Integers, Sequences, FiniteSets, TLC

VARIABLES
    policyFile,      \* permissions.yaml on disk: [state, doc], state "ok", "missing" or "invalid"
    loaderConfig,    \* PermissionConfigLoader._config: [loaded, doc] (loaded FALSE = {})
    loaderPath,      \* PermissionConfigLoader._path is set
    initialized,     \* sandbox._initialized
    lastOp           \* what the last sandbox call or gated operation did

sbVars == <<policyFile, loaderConfig, loaderPath, initialized, lastOp>>

VARIABLES
    threads,         \* the Thread rows: thread id -> [state, updated_at] ("none" = no row)
    clock,           \* the wall clock, in ticks
    lastUpdate       \* what the last update_state call did

thVars == <<threads, clock, lastUpdate>>

\* The variables outside each component.
VARIABLES
    confirm,         \* the request_confirm call in progress: its locals and its result
    telegram         \* the Bot API update queue of the bot

cfVars == <<confirm, telegram>>

VARIABLES
    epoch,           \* the half hour of the week at which the clock started
    yaml,            \* background/triggers.yaml: the trigger ids and their last_fired
    engine,          \* a TriggerEngine kept in memory (the daemon's _trigger_engine)
    lastEval,        \* what the last evaluate call returned
    lastMark         \* the last mark_fired call on the engine

tgVars == <<epoch, yaml, engine, lastEval, lastMark>>

VARIABLES
    daemon           \* the OrionDaemon: its quiet hours, its position and its last cycle

dmVars == <<daemon>>

VARIABLES
    providerEnv,     \* credentials, engine health and constructors that fail, per provider
    lastRoute        \* the last route call and what it returned

rtVars == <<providerEnv, lastRoute>>

VARIABLES
    authNow,         \* the wall clock of the auth modules, in hours
    oauth,           \* .orion/auth/<provider>.json of each OAuth provider
    envKeys,         \* the API-key environment variable of each provider
    lastToken,       \* the last AuthManager.get_token call and what it returned
    lastCall         \* the last engine generate or stream call and how it ended

auVars == <<authNow, oauth, envKeys, lastToken, lastCall>>

VARIABLES
    sessions,        \* the Session rows: id -> [user, status, message_count, summary, had]
    messages,        \* the Message rows: a set of [id, session, user]
    compressed,      \* the CompressedMemory rows of each session: their original_message_count
    vectors,         \* the vector store: a set of [kind, doc, idx, user_id, owner]
    saves,           \* the save_message calls in progress or finished, one per caller
    lastCompress,    \* the last compress_old_sessions run
    lastSearch,      \* the last get_relevant_context call and what it returned
    ingested,        \* the documents ingest has given a parent id, in order
    lastDoc          \* the last ingest / delete_document call

mmVars == <<sessions, messages, compressed, vectors, saves, lastCompress, lastSearch,
            ingested, lastDoc>>

VARIABLES
    trimmed          \* a truncate_context call: its arguments and what it returned

cxVars == <<trimmed>>

VARIABLES
    built,           \* a ContextBuilder.build call: its inputs and the list it returned
    reloader,        \* the loader's lock, the reload in progress and what a reader saw
    checked,         \* a sandbox.check call on a given policy: its arguments and its result
    lifecycle,       \* OrionDaemon._running, its loop threads and the cycles they ran
    timed,           \* an evaluate call on a time_based trigger: its inputs and its result
    device           \* a device-flow login: its polling loop, its outcome, the token file

ltVars == <<built, reloader, checked, lifecycle, timed, device>>

VARIABLES
    turn,            \* a user turn of chat_loop: the rows saved, the context built, the request sent
    worker,          \* a loop thread inside run_cycle: the triggers it evaluated and processed
    registry         \* the triggers file and the TriggerEngine instances that loaded it

nvVars == <<turn, worker, registry>>

\* The components added after routing, as one tuple.
xtVars == <<auVars, mmVars, cxVars, ltVars, nvVars>>

sbRest == <<thVars, cfVars, tgVars, dmVars, rtVars, xtVars>>
thRest == <<sbVars, cfVars, tgVars, dmVars, rtVars, xtVars>>
cfRest == <<sbVars, thVars, tgVars, dmVars, rtVars, xtVars>>
tgRest == <<sbVars, cfVars, threads, lastUpdate, dmVars, rtVars, xtVars>>
rtRest == <<sbVars, thVars, cfVars, tgVars, dmVars, xtVars>>
coreVars == <<sbVars, thVars, cfVars, tgVars, dmVars, rtVars>>
auRest == <<coreVars, mmVars, cxVars, ltVars, nvVars>>
mmRest == <<coreVars, auVars, cxVars, ltVars, nvVars>>
cxRest == <<coreVars, auVars, mmVars, ltVars, nvVars>>
earlyVars == <<coreVars, auVars, mmVars, cxVars>>
btRest == <<earlyVars, reloader, checked, lifecycle, timed, device, nvVars>>
ckRest == <<earlyVars, built, reloader, lifecycle, timed, device, nvVars>>
lcRest == <<earlyVars, built, reloader, checked, timed, device, nvVars>>
tmRest == <<earlyVars, built, reloader, checked, lifecycle, device, nvVars>>
dvRest == <<earlyVars, built, reloader, checked, lifecycle, timed, nvVars>>
chRest == <<earlyVars, ltVars, worker, registry>>
wkRest == <<earlyVars, ltVars, turn, registry>>
rgRest == <<earlyVars, ltVars, turn, worker>>

vars == <<coreVars, xtVars>>

(***************************************************************************)
(* String helpers (str.startswith, the `in` substring test, str.lower).    *)
(***************************************************************************)
StartsWith(s, prefix) ==
    /\ Len(prefix) <= Len(s)
    /\ SubSeq(s, 1, Len(prefix)) = prefix

Contains(s, sub) ==
    \E i \in 0..(Len(s) - Len(sub)) : SubSeq(s, i + 1, i + Len(sub)) = sub

LowerChar(c) ==
    CASE c = "Y" -> "y"
      [] c = "E" -> "e"
      [] c = "S" -> "s"
      [] c = "N" -> "n"
      [] c = "O" -> "o"
      [] c = "A" -> "a"
      [] c = "B" -> "b"
      [] c = "U" -> "u"
      [] c = "D" -> "d"
      [] OTHER -> c

Lower(s) == [i \in 1..Len(s) |-> LowerChar(s[i])]

RECURSIVE Strip(_)
Strip(s) ==
    IF s = <<>> THEN s
    ELSE IF Head(s) = " " THEN Strip(Tail(s))
    ELSE IF s[Len(s)] = " " THEN Strip(SubSeq(s, 1, Len(s) - 1))
    ELSE s

(***************************************************************************)
(* permissions/permission_types.py                                         *)
(***************************************************************************)
PermissionAction ==
    { "file.read", "file.write", "file.delete", "terminal.run", "app.open",
      "input.control", "calendar.read", "calendar.write", "browser.navigate",
      "browser.search", "system.info" }

\* The dict ACTION_TO_SECTION as a set of <<action, section>> pairs.
ACTION_TO_SECTION ==
    { <<"file.read", "file_system">>, <<"file.write", "file_system">>,
      <<"file.delete", "file_system">>, <<"terminal.run", "terminal">>,
      <<"app.open", "app_control">>, <<"input.control", "input_control">>,
      <<"calendar.read", "calendar">>, <<"calendar.write", "calendar">>,
      <<"browser.navigate", "browsing">>, <<"browser.search", "search">>,
      <<"system.info", "system_info">> }

\* ACTION_TO_SECTION.get(action): the set of sections the dict gives (empty = None).
SectionsOf(action) == { pr[2] : pr \in { q \in ACTION_TO_SECTION : q[1] = action } }

\* The typed action set of the sandbox interface (spec section 4.2).
TypedActions == PermissionAction \cup {"proactive.message"}

(***************************************************************************)
(* permissions/config_loader.py: the policy document                       *)
(***************************************************************************)
REQUIRED_SECTIONS ==
    { "browsing", "search", "file_system", "terminal", "app_control",
      "input_control", "calendar", "system_info", "camera", "voice", "proactive" }

HomeDir == <<"h">>

\* A policy document as _validate returns it, with the keys check and the daemon
\* read: enabled flag and require_confirm of the gated sections, the write
\* sub-flag, the proactive section's enabled flag and its quiet hours.
MkPolicy(en, rc, wr, pe, qh) ==
    [ s \in REQUIRED_SECTIONS |->
        CASE s = "file_system" ->
               [ enabled |-> en, require_confirm |-> rc,
                 read |-> TRUE, write |-> wr, delete |-> TRUE,
                 blocked_paths |-> {<<"e">>}, allowed_paths |-> {<<"~">>, <<"e", "x">>} ]
          [] s = "terminal" ->
               [ enabled |-> en, require_confirm |-> rc, blocked_commands |-> {<<"r", "m">>} ]
          [] s = "calendar" ->
               [ enabled |-> en, require_confirm |-> rc, read |-> TRUE, write |-> wr ]
          [] s = "app_control" ->
               [ enabled |-> TRUE, require_confirm |-> rc, allowed_apps |-> {<<"A">>} ]
          [] s = "browsing" ->
               [ enabled |-> TRUE, require_confirm |-> FALSE,
                 blocked_domains |-> {}, allowed_domains |-> {} ]
          [] s = "proactive" ->
               [ enabled |-> pe, require_confirm |-> FALSE, quiet_hours |-> qh ]
          [] OTHER -> [ enabled |-> TRUE, require_confirm |-> FALSE ] ]

\* An "HH:MM" string, as its four digits.
Night == [start |-> <<2, 2, 0, 0>>, end |-> <<0, 8, 0, 0>>]

Lunch == [start |-> <<1, 3, 0, 0>>, end |-> <<1, 4, 0, 0>>]

\* The policy documents the model puts on disk, by number.
PolicyDocs ==
    << MkPolicy(TRUE, FALSE, TRUE, TRUE, Night),
       MkPolicy(TRUE, TRUE, TRUE, TRUE, Lunch),
       MkPolicy(TRUE, TRUE, FALSE, FALSE, Night),
       MkPolicy(FALSE, FALSE, TRUE, TRUE, Lunch) >>

Policies == DOMAIN PolicyDocs

\* What can be on disk: a valid document, no file, or a file that fails
\* _read_yaml / _validate (doc 0: nothing usable).
FileStates ==
    { [state |-> "ok", doc |-> p] : p \in Policies }
      \cup { [state |-> st, doc |-> 0] : st \in {"missing", "invalid"} }

\* _config = {} before the first load
EmptyConfig == [loaded |-> FALSE, doc |-> 0]

(***************************************************************************)
(* permissions/sandbox.py: check                                           *)
(***************************************************************************)
Details == [path : Seq(STRING), command : Seq(STRING), app : Seq(STRING), url : Seq(STRING)]

NoDetails == [path |-> <<>>, command |-> <<>>, app |-> <<>>, url |-> <<>>]

Result(allowed, requires_confirm, reason) ==
    [ raised |-> FALSE, allowed |-> allowed,
      requires_confirm |-> requires_confirm, reason |-> reason ]

\* check did not return: an exception left it.
Raised == [ raised |-> TRUE, allowed |-> FALSE, requires_confirm |-> FALSE,
            reason |-> "exception" ]

\* section.get(key, False) on a section of the policy document
DictGet(section, key) == IF key \in DOMAIN section THEN section[key] ELSE FALSE

\* str(Path(p).expanduser())
ExpandUser(p) == IF p # <<>> /\ Head(p) = "~" THEN HomeDir \o Tail(p) ELSE p

_check_file_system(action, section, details) ==
    IF action = "file.read" /\ ~section.read
      THEN Result(FALSE, FALSE, "File read is disabled.")
    ELSE IF action = "file.write" /\ ~section.write
      THEN Result(FALSE, FALSE, "File write is disabled.")
    ELSE IF action = "file.delete" /\ ~section.delete
      THEN Result(FALSE, FALSE, "File delete is disabled.")
    ELSE IF details.path # <<>>
            /\ \E b \in section.blocked_paths : StartsWith(details.path, ExpandUser(b))
      THEN Result(FALSE, FALSE, "is in blocked_paths")
    ELSE IF details.path # <<>>
            /\ section.allowed_paths # {}
            /\ ~\E a \in section.allowed_paths : StartsWith(details.path, ExpandUser(a))
      THEN Result(FALSE, FALSE, "is not in allowed_paths")
    ELSE Result(TRUE, DictGet(section, "require_confirm"), "File operation allowed.")

_check_terminal(action, section, details) ==
    IF \E b \in section.blocked_commands : Contains(details.command, b)
      THEN Result(FALSE, FALSE, "Command contains blocked pattern")
      ELSE Result(TRUE, DictGet(section, "require_confirm"), "Terminal command allowed.")

_check_app_control(action, section, details) ==
    LET app_name == Lower(details.app)
        allowed_apps == { Lower(a) : a \in section.allowed_apps }
    IN  IF allowed_apps # {} /\ app_name # <<>> /\ app_name \notin allowed_apps
          THEN Result(FALSE, FALSE, "is not in allowed_apps")
          ELSE Result(TRUE, DictGet(section, "require_confirm"), "App control allowed.")

_check_simple_with_confirm(action, section) ==
    Result(TRUE, DictGet(section, "require_confirm"), "allowed.")

_check_calendar(action, section) ==
    IF action = "calendar.read" /\ ~section.read
      THEN Result(FALSE, FALSE, "Calendar read is disabled.")
    ELSE IF action = "calendar.write" /\ ~section.write
      THEN Result(FALSE, FALSE, "Calendar write is disabled.")
    ELSE Result(TRUE, DictGet(section, "require_confirm"), "Calendar access allowed.")

_check_browsing(action, section, details) ==
    IF details.url # <<>>
       /\ \E d \in section.blocked_domains : Contains(details.url, d)
      THEN Result(FALSE, FALSE, "Domain is blocked.")
    ELSE IF details.url # <<>>
            /\ section.allowed_domains # {}
            /\ ~\E d \in section.allowed_domains : Contains(details.url, d)
      THEN Result(FALSE, FALSE, "not in allowed_domains.")
    ELSE Result(TRUE, DictGet(section, "require_confirm"), "Browsing allowed.")

_check_action_specific(action, section_key, section, details) ==
    CASE section_key = "file_system"   -> _check_file_system(action, section, details)
      [] section_key = "terminal"      -> _check_terminal(action, section, details)
      [] section_key = "app_control"   -> _check_app_control(action, section, details)
      [] section_key = "input_control" -> _check_simple_with_confirm(action, section)
      [] section_key = "calendar"      -> _check_calendar(action, section)
      [] section_key = "browsing"      -> _check_browsing(action, section, details)
      [] section_key = "search"        -> Result(TRUE, FALSE, "Search is enabled.")
      [] section_key = "system_info"   -> Result(TRUE, FALSE, "System info read is enabled.")
      [] OTHER -> Result(FALSE, FALSE, "No specific handler for section")

\* The body of check on the policy document `config` the loader holds (a
\* function from section names to sections; the empty one before a load).
CheckConfig(config, action, details) ==
    IF action \notin PermissionAction
      THEN Result(FALSE, FALSE, "Unknown action")
    ELSE IF SectionsOf(action) = {}
      THEN Result(FALSE, FALSE, "No config section mapped for action")
    ELSE LET section_key == CHOOSE s \in SectionsOf(action) : TRUE
         IN  IF section_key \notin DOMAIN config
               THEN Result(FALSE, FALSE, "Permission section not found in config.")
             ELSE IF ~DictGet(config[section_key], "enabled")
               THEN Result(FALSE, FALSE, "Section is disabled in permissions.yaml.")
             ELSE _check_action_specific(action, section_key, config[section_key], details)

\* The body of check once the configuration `cfg` is loaded.
CheckLoaded(cfg, action, details) ==
    CheckConfig(IF cfg.loaded THEN PolicyDocs[cfg.doc] ELSE <<>>, action, details)

\* _ensure_loaded: the first check loads the file; load raises when the file is
\* missing or does not validate, and _initialized then stays False.
EnsureLoadedRaises == ~initialized /\ policyFile.state # "ok"

ConfigAfterEnsure ==
    IF initialized \/ policyFile.state # "ok"
      THEN loaderConfig
      ELSE [loaded |-> TRUE, doc |-> policyFile.doc]

\* load sets _path before it reads the file, unless the file does not exist.
PathAfterEnsure ==
    IF initialized THEN loaderPath ELSE loaderPath \/ policyFile.state # "missing"

\* sandbox.check(action, details) in the current state.
check(action, details) ==
    IF EnsureLoadedRaises THEN Raised
    ELSE CheckLoaded(ConfigAfterEnsure, action, details)

\* The state change of one sandbox.check call.
CheckEffect ==
    /\ initialized' = (initialized \/ policyFile.state = "ok")
    /\ loaderConfig' = ConfigAfterEnsure
    /\ loaderPath' = PathAfterEnsure
    /\ UNCHANGED <<policyFile, sbRest>>

(***************************************************************************)
(* system/file_ops.py, system/terminal.py, system/calendar_ops.py           *)
(***************************************************************************)
Paths == { <<"h", "a">>, <<"e", "x">>, <<"o">> }

Commands == { <<"l", "s">>, <<"r", "m">>, <<"S", "U", "D", "O">> }

\* terminal.BLOCKED_COMMANDS (the entries the modelled commands can contain).
BLOCKED_COMMANDS == { <<"s", "u", "d", "o">>, <<"r", "m", " ", "-", "r", "f">> }

_is_blocked(command) ==
    \E b \in BLOCKED_COMMANDS : Contains(Strip(Lower(command)), Lower(b))

\* How a check outcome is recorded in lastOp.
Label(res) == IF res.raised THEN "raised" ELSE IF res.allowed THEN "allowed" ELSE "denied"

\* Whether request_confirm is reached for this outcome.
Asks(res) == ~res.raised /\ res.allowed /\ res.requires_confirm

\* _check_permission of file_ops, terminal and calendar_ops (the three bodies are
\* the same): the first component of the tuple it returns. `confirmed` is what
\* request_confirm returns when it is called.
_check_permission(res, confirmed) ==
    IF res.raised THEN TRUE                  \* except Exception: "... - allowing"
    ELSE IF ~res.allowed THEN FALSE
    ELSE IF res.requires_confirm /\ ~confirmed THEN FALSE
    ELSE TRUE

FileOps == { "read_file", "write_file", "delete_file", "list_dir", "create_dir" }

FileOpAction(op) ==
    CASE op \in {"read_file", "list_dir"}    -> "file.read"
      [] op \in {"write_file", "create_dir"} -> "file.write"
      [] op = "delete_file"                  -> "file.delete"

NoOp ==
    [ op |-> "none", action |-> "none", check |-> "none", requires_confirm |-> FALSE,
      confirm |-> "notasked", performed |-> FALSE, denied |-> FALSE, reason |-> "none" ]

OpRecord(op, action, res, confirmed, performed, denied) ==
    [ op |-> op, action |-> action, check |-> Label(res),
      requires_confirm |-> res.requires_confirm,
      confirm |-> IF Asks(res) THEN (IF confirmed THEN "yes" ELSE "no") ELSE "notasked",
      performed |-> performed, denied |-> denied, reason |-> res.reason ]

\* read_file, write_file, delete_file, list_dir, create_dir
FileOp(op, path, confirmed) ==
    LET res == check(FileOpAction(op), [NoDetails EXCEPT !.path = path])
        allowed == _check_permission(res, confirmed)
    IN  /\ CheckEffect
        /\ lastOp' = OpRecord(op, FileOpAction(op), res, confirmed, allowed, ~allowed)

\* copy_file: file.read on the source, then file.write on the destination; c1 and
\* c2 are what the two request_confirm calls return when they are made.
CopyFile(src, dst, c1, c2) ==
    LET res1 == check("file.read", [NoDetails EXCEPT !.path = src])
        allowed_src == _check_permission(res1, c1)
        \* the second check rules on the configuration the first one loaded
        res2 == check("file.write", [NoDetails EXCEPT !.path = dst])
        allowed_dst == _check_permission(res2, c2)
        declined == (Asks(res1) /\ ~c1) \/ (allowed_src /\ Asks(res2) /\ ~c2)
        asked == Asks(res1) \/ (allowed_src /\ Asks(res2))
        shown == IF allowed_src THEN res2 ELSE res1
    IN  /\ CheckEffect
        /\ lastOp' = [ op |-> "copy_file", action |-> "file.write",
                       check |-> IF res1.raised THEN "raised" ELSE Label(shown),
                       requires_confirm |-> asked,
                       confirm |-> IF declined THEN "no" ELSE IF asked THEN "yes" ELSE "notasked",
                       performed |-> allowed_src /\ allowed_dst,
                       denied |-> ~(allowed_src /\ allowed_dst),
                       reason |-> shown.reason ]

\* terminal.run and terminal.run_background
TerminalOp(op, command, confirmed) ==
    LET res == check("terminal.run", [NoDetails EXCEPT !.command = command])
        allowed == _check_permission(res, confirmed)
        performed == allowed /\ ~_is_blocked(command)
    IN  /\ CheckEffect
        /\ lastOp' = OpRecord(op, "terminal.run", res, confirmed, performed, ~performed)

CalendarOps == { "get_events", "add_event", "get_upcoming_events" }

CalendarOpAction(op) == IF op = "add_event" THEN "calendar.write" ELSE "calendar.read"

\* calendar_ops.get_events, add_event, get_upcoming_events
CalendarOp(op, confirmed) ==
    LET res == check(CalendarOpAction(op), NoDetails)
        allowed == _check_permission(res, confirmed)
    IN  /\ CheckEffect
        /\ lastOp' = OpRecord(op, CalendarOpAction(op), res, confirmed, allowed, ~allowed)

\* A caller asks sandbox.check directly.
DirectCheck(action, details) ==
    LET res == check(action, details)
    IN  /\ CheckEffect
        /\ lastOp' = OpRecord("check", action, res, FALSE, FALSE, FALSE)

\* The policy file is edited, removed or corrupted on disk.
EditPolicyFile(f) ==
    /\ policyFile' = f
    /\ UNCHANGED <<loaderConfig, loaderPath, initialized, lastOp, sbRest>>

CheckDetails ==
    { [NoDetails EXCEPT !.path = p] : p \in Paths }
      \cup { [NoDetails EXCEPT !.command = c] : c \in Commands }
      \cup { [NoDetails EXCEPT !.app = a] : a \in {<<"a">>, <<"A">>, <<"b">>} }
      \cup { NoDetails }

SandboxInit ==
    /\ policyFile \in FileStates
    /\ loaderConfig = EmptyConfig
    /\ loaderPath = FALSE
    /\ initialized = FALSE
    /\ lastOp = NoOp

\* The sandbox before any call, for the specifications of the other components.
SandboxIdle ==
    /\ policyFile = [state |-> "ok", doc |-> 1]
    /\ loaderConfig = EmptyConfig
    /\ loaderPath = FALSE
    /\ initialized = FALSE
    /\ lastOp = NoOp

SandboxNext ==
    \/ \E op \in FileOps, p \in Paths, c \in BOOLEAN : FileOp(op, p, c)
    \/ \E s \in Paths, d \in Paths, c1 \in BOOLEAN, c2 \in BOOLEAN : CopyFile(s, d, c1, c2)
    \/ \E op \in {"run", "run_background"}, cmd \in Commands, c \in BOOLEAN :
          TerminalOp(op, cmd, c)
    \/ \E op \in CalendarOps, c \in BOOLEAN : CalendarOp(op, c)
    \/ \E a \in TypedActions, d \in CheckDetails : DirectCheck(a, d)
    \/ \E f \in FileStates : EditPolicyFile(f)

(***************************************************************************)
(* background/thread_manager.py                                            *)
(***************************************************************************)
MaxThreads == 2

MaxTicks == 4

ThreadIds == 1..MaxThreads

NoThread == [state |-> "none", updated_at |-> 0]

\* The state names callers pass to update_state.
StateNames == { "open", "waiting", "resolved", "OPEN", "Resolved", "closed" }

\* str.lower() on the state names
LowerName(name) ==
    CASE name = "OPEN" -> "open"
      [] name = "Resolved" -> "resolved"
      [] OTHER -> name

\* state_map of update_state: its keys
state_map == { "open", "waiting", "resolved" }

NoUpdate == [id |-> 0, requested |-> "none", from |-> "none", to |-> "none", raised |-> FALSE]

\* The row update_state leaves for a thread that exists: the state is assigned
\* whatever the old one was; the commit may fail and is then rolled back.
UpdatedRow(row, new_state, commit_ok) ==
    IF commit_ok
      THEN [ state |-> new_state,
             updated_at |-> IF new_state # row.state THEN clock ELSE row.updated_at ]
      ELSE row

\* update_state(thread_id, state)
update_state(thread_id, state, commit_ok) ==
    LET invalid == LowerName(state) \notin state_map
        missing == thread_id \notin ThreadIds \/ threads[thread_id].state = "none"
        raises == invalid \/ missing \/ ~commit_ok
    IN  /\ threads' = IF invalid \/ missing THEN threads
                      ELSE [threads EXCEPT ![thread_id] =
                              UpdatedRow(threads[thread_id], LowerName(state), commit_ok)]
        /\ lastUpdate' = [ id |-> thread_id, requested |-> state,
                           from |-> IF thread_id \in ThreadIds
                                      THEN threads[thread_id].state ELSE "none",
                           to |-> IF thread_id \in ThreadIds
                                    THEN threads'[thread_id].state ELSE "none",
                           raised |-> raises ]
        /\ UNCHANGED <<clock, thRest>>

\* resolve_thread and set_thread_waiting: update_state with the exception swallowed.
resolve_thread(thread_id, commit_ok) == update_state(thread_id, "resolved", commit_ok)

set_thread_waiting(thread_id, commit_ok) == update_state(thread_id, "waiting", commit_ok)

\* open_thread(user_id, trigger): a new row in state open.
open_thread ==
    /\ \E id \in ThreadIds :
          /\ threads[id].state = "none"
          /\ \A j \in ThreadIds : j < id => threads[j].state # "none"
          /\ threads' = [threads EXCEPT ![id] = [state |-> "open", updated_at |-> clock]]
    /\ UNCHANGED <<clock, lastUpdate, thRest>>

\* update_thread_context: the row is written, so onupdate stamps updated_at.
update_thread_context(thread_id) ==
    /\ threads[thread_id].state # "none"
    /\ threads' = [threads EXCEPT ![thread_id].updated_at = clock]
    /\ UNCHANGED <<clock, lastUpdate, thRest>>

Tick ==
    /\ clock < MaxTicks
    /\ clock' = clock + 1
    /\ UNCHANGED <<threads, lastUpdate, thRest>>

ThreadsInit ==
    /\ threads = [id \in ThreadIds |-> NoThread]
    /\ clock = 0
    /\ lastUpdate = NoUpdate

ThreadsNext ==
    \/ open_thread
    \/ \E id \in ThreadIds \cup {0}, st \in StateNames, ok \in BOOLEAN : update_state(id, st, ok)
    \/ \E id \in ThreadIds, ok \in BOOLEAN : resolve_thread(id, ok)
    \/ \E id \in ThreadIds, ok \in BOOLEAN : set_thread_waiting(id, ok)
    \/ \E id \in ThreadIds : update_thread_context(id)
    \/ Tick

(***************************************************************************)
(* permissions/sandbox.py: request_confirm over the Telegram Bot API       *)
(***************************************************************************)
MaxTime == 8

MaxUpdates == 2

\* The timeouts callers pass, in seconds.
Timeouts == { 1, 3 }

\* getUpdates is a long poll: params {"timeout": 5}
LongPollSeconds == 5

\* time.sleep(1) after a poll without a terminating reply
PollSleep == 1

\* time.sleep(2) after a poll that failed
ErrorSleep == 2

\* config.DEFAULT_USER_ID
DEFAULT_USER_ID == "owner"

Chats == { DEFAULT_USER_ID, "other" }

ReplyTexts == { <<" ", "Y", "E", "S">>, <<"n", "o">>, <<"o", "k">> }

NoUpdateId == [known |-> FALSE, id |-> 0]

NoReply == [update_id |-> 0, chat |-> "none", text |-> <<>>, stale |-> FALSE]

ConfirmIdle ==
    [ pc |-> "idle", now |-> 0, deadline |-> 0, poll_start |-> 0,
      last_update_id |-> NoUpdateId, result |-> "none", why |-> "none",
      reply |-> NoReply, observed_at |-> 0 ]

Min(a, b) == IF a < b THEN a ELSE b

\* The updates the server returns to getUpdates for the offset the loop passes:
\* all unconfirmed updates without an offset, else those from last_update_id + 1.
Visible(updates, last) ==
    IF last.known
      THEN SelectSeq(updates, LAMBDA u : u.update_id >= last.id + 1)
      ELSE updates

\* _get_latest_update_id: getUpdates(limit=1, offset=-1) returns the last update
\* and makes the server forget the earlier ones; None on failure or empty queue.
_get_latest_update_id(updates, ok) ==
    IF ok /\ updates # <<>>
      THEN [known |-> TRUE, id |-> updates[Len(updates)].update_id]
      ELSE NoUpdateId

QueueAfterLatest(updates, ok) ==
    IF ok /\ updates # <<>> THEN <<updates[Len(updates)]>> ELSE updates

\* text = (msg.get("text") or "").strip().lower()
ReplyText(u) == Lower(Strip(u.text))

\* chat_id == str(user_id) and text in ("yes", "no")
Terminates(u) ==
    u.chat = DEFAULT_USER_ID /\ ReplyText(u) \in { <<"y", "e", "s">>, <<"n", "o">> }

\* The index of the first terminating update of a batch, 0 if there is none.
FirstTerminating(batch) ==
    IF \E i \in 1..Len(batch) : Terminates(batch[i])
      THEN CHOOSE i \in 1..Len(batch) :
              Terminates(batch[i]) /\ \A j \in 1..(i - 1) : ~Terminates(batch[j])
      ELSE 0

\* _acknowledge_update: getUpdates(offset = update_id + 1) confirms the updates
\* up to update_id; a transport failure is swallowed.
_acknowledge_update(updates, update_id, ok) ==
    IF ok THEN SelectSeq(updates, LAMBDA u : u.update_id > update_id) ELSE updates

\* request_confirm up to the polling loop: credentials, sendMessage, offset, deadline.
ConfirmSend(has_token, send_ok, latest_ok, timeout) ==
    /\ confirm.pc = "idle"
    /\ IF ~has_token
         THEN /\ confirm' = [confirm EXCEPT !.pc = "done", !.result = "false",
                                            !.why = "no_token"]
              /\ UNCHANGED telegram
         ELSE IF ~send_ok
           THEN /\ confirm' = [confirm EXCEPT !.pc = "done", !.result = "false",
                                              !.why = "send_failed"]
                /\ UNCHANGED telegram
           ELSE /\ confirm' = [confirm EXCEPT
                                 !.pc = "loop",
                                 !.last_update_id =
                                     _get_latest_update_id(telegram.updates, latest_ok),
                                 !.deadline = confirm.now + timeout]
                /\ telegram' = [telegram EXCEPT
                                 !.updates = [i \in 1..Len(QueueAfterLatest(@, latest_ok)) |->
                                     [QueueAfterLatest(@, latest_ok)[i] EXCEPT !.stale = TRUE]]]
    /\ UNCHANGED cfRest

\* while time.time() < deadline: ... else the timeout return.
PollBegin ==
    /\ confirm.pc = "loop"
    /\ IF confirm.now < confirm.deadline
         THEN confirm' = [confirm EXCEPT !.pc = "polling", !.poll_start = confirm.now]
         ELSE confirm' = [confirm EXCEPT !.pc = "done", !.result = "false",
                                         !.why = "timeout"]
    /\ UNCHANGED <<telegram, cfRest>>

\* The getUpdates long poll returns and the loop body runs on what it returned.
PollReturn(poll_ok, ack_ok) ==
    LET batch == Visible(telegram.updates, confirm.last_update_id)
        i == FirstTerminating(batch)
    IN  /\ confirm.pc = "polling"
        /\ IF ~poll_ok
             THEN /\ confirm' = [confirm EXCEPT
                                   !.pc = "loop",
                                   !.now = Min(confirm.now + ErrorSleep, MaxTime)]
                  /\ UNCHANGED telegram
             ELSE /\ batch # <<>> \/ confirm.now - confirm.poll_start >= LongPollSeconds
                  /\ IF i # 0
                       THEN /\ confirm' = [confirm EXCEPT
                                   !.pc = "done",
                                   !.last_update_id = [known |-> TRUE, id |-> batch[i].update_id],
                                   !.result = IF ReplyText(batch[i]) = <<"y", "e", "s">>
                                                THEN "true" ELSE "false",
                                   !.why = "reply",
                                   !.reply = batch[i],
                                   !.observed_at = confirm.now]
                            /\ telegram' = [telegram EXCEPT !.updates =
                                   _acknowledge_update(batch, batch[i].update_id, ack_ok)]
                       ELSE /\ confirm' = [confirm EXCEPT
                                   !.pc = "loop",
                                   !.last_update_id =
                                       IF batch = <<>> THEN @
                                       ELSE [known |-> TRUE,
                                             id |-> batch[Len(batch)].update_id],
                                   !.now = Min(confirm.now + PollSleep, MaxTime)]
                            /\ telegram' = [telegram EXCEPT !.updates = batch]
        /\ UNCHANGED cfRest

\* Somebody posts a message to the bot.
ReplyArrives(chat, text) ==
    /\ confirm.pc # "done"
    /\ telegram.next_id <= MaxUpdates
    /\ telegram' = [ updates |-> Append(telegram.updates,
                        [update_id |-> telegram.next_id, chat |-> chat, text |-> text,
                         stale |-> FALSE]),
                     next_id |-> telegram.next_id + 1 ]
    /\ UNCHANGED <<confirm, cfRest>>

\* A second passes while the long poll waits on an empty queue.
PollWaits ==
    /\ confirm.pc = "polling"
    /\ confirm.now < MaxTime
    /\ confirm.now - confirm.poll_start < LongPollSeconds
    /\ Visible(telegram.updates, confirm.last_update_id) = <<>>
    /\ confirm' = [confirm EXCEPT !.now = confirm.now + 1]
    /\ UNCHANGED <<telegram, cfRest>>

\* The caller takes the result; a later request starts from the same queue.
ConfirmReturn ==
    /\ confirm.pc = "done"
    /\ confirm' = ConfirmIdle
    /\ UNCHANGED <<telegram, cfRest>>

ConfirmInit ==
    /\ confirm = ConfirmIdle
    /\ telegram = [updates |-> <<>>, next_id |-> 1]

ConfirmNext ==
    \/ \E has_token \in BOOLEAN, send_ok \in BOOLEAN, latest_ok \in BOOLEAN, t \in Timeouts :
          ConfirmSend(has_token, send_ok, latest_ok, t)
    \/ PollBegin
    \/ \E poll_ok \in BOOLEAN, ack_ok \in BOOLEAN : PollReturn(poll_ok, ack_ok)
    \/ \E chat \in Chats, text \in ReplyTexts : ReplyArrives(chat, text)
    \/ PollWaits
    \/ ConfirmReturn

(***************************************************************************)
(* background/triggers.py                                                  *)
(***************************************************************************)
\* The clock counts half hours; now is the half hour of the week, Monday 00:00 = 0.
Now == epoch + clock

Weekday(t) == (t \div 48) % 7

Hour(t) == (t \div 2) % 24

Minute(t) == (t % 2) * 30

\* total_seconds() between two instants
SecondsBetween(later, earlier) == (later - earlier) * 1800

day_names == << "mon", "tue", "wed", "thu", "fri", "sat", "sun" >>

TriggerIds == { "morning_checkin", "inactivity_reminder", "lunch_slot", "due_keyword", "daily_digest" }

\* The order of the triggers in the YAML file.
TriggerOrder ==
    << "morning_checkin", "inactivity_reminder", "lunch_slot", "due_keyword", "daily_digest" >>

NoCondition ==
    [ hour |-> 0, minute |-> 0, days |-> {}, hours |-> 4, times |-> {},
      keywords |-> {}, pattern_type |-> "none", day |-> 0 ]

\* The triggers of the YAML file: the first two as DEFAULT_TRIGGERS has them, and
\* one of each other type.
Triggers ==
    [ id \in TriggerIds |->
        CASE id = "morning_checkin" ->
               [ type |-> "time_based", enabled |-> TRUE,
                 condition |-> [NoCondition EXCEPT !.hour = 8, !.minute = 0,
                                   !.days = {"mon", "tue", "wed", "thu", "fri"}] ]
          [] id = "inactivity_reminder" ->
               [ type |-> "inactivity", enabled |-> TRUE,
                 condition |-> [NoCondition EXCEPT !.hours = 4] ]
          [] id = "lunch_slot" ->
               [ type |-> "schedule", enabled |-> TRUE,
                 condition |-> [NoCondition EXCEPT !.times = {<<13, 0>>}] ]
          [] id = "due_keyword" ->
               [ type |-> "keyword", enabled |-> TRUE,
                 condition |-> [NoCondition EXCEPT !.keywords = {<<"D", "u", "e">>}] ]
          [] OTHER ->
               [ type |-> "pattern", enabled |-> TRUE,
                 condition |-> [NoCondition EXCEPT !.pattern_type = "daily", !.hour = 13] ] ]

\* last_fired: Optional[datetime]; <<>> is None, <<t>> the instant t.
Never == <<>>

\* The contents of the recent messages a context may carry.
MessageTexts == { <<"D", "U", "E">>, <<"o", "k">> }

\* A time_based evaluation whose cooldown also covers the 23rd hour's end.
_evaluate_time_based_after_23h(condition, now, last_fired) ==
    IF condition.days # {} /\ day_names[Weekday(now) + 1] \notin condition.days
      THEN FALSE
    ELSE IF Hour(now) # condition.hour \/ Minute(now) # condition.minute
      THEN FALSE
    ELSE IF last_fired # Never /\ SecondsBetween(now, last_fired[1]) <= 23 * 3600
      THEN FALSE
    ELSE TRUE

_evaluate_time_based(condition, now, last_fired) ==
    IF condition.days # {} /\ day_names[Weekday(now) + 1] \notin condition.days
      THEN FALSE
    ELSE IF Hour(now) # condition.hour \/ Minute(now) # condition.minute
      THEN FALSE
    ELSE IF last_fired # Never /\ SecondsBetween(now, last_fired[1]) < 23 * 3600
      THEN FALSE
    ELSE TRUE

_evaluate_inactivity(condition, context, last_fired) ==
    IF context.last_message_time = Never
      THEN FALSE
    ELSE IF SecondsBetween(context.current_time, context.last_message_time[1])
              < condition.hours * 3600
      THEN FALSE
    ELSE IF last_fired # Never
              /\ SecondsBetween(context.current_time, last_fired[1]) < condition.hours * 3600
      THEN FALSE
    ELSE TRUE

_evaluate_schedule(condition, now, last_fired) ==
    \E schedule \in condition.times :
        /\ Hour(now) = schedule[1] /\ Minute(now) = schedule[2]
        /\ ~(last_fired # Never /\ SecondsBetween(now, last_fired[1]) < 3600)

_evaluate_keyword(condition, context) ==
    \E msg \in context.recent_messages, keyword \in condition.keywords :
        Contains(Lower(msg), Lower(keyword))

_evaluate_pattern(condition, context, last_fired) ==
    LET now == context.current_time
    IN  IF /\ condition.pattern_type = "daily"
           /\ Hour(now) = condition.hour /\ Minute(now) = 0
          THEN ~(last_fired # Never /\ SecondsBetween(now, last_fired[1]) < 86400)
        ELSE IF /\ condition.pattern_type = "weekly"
                /\ Weekday(now) = condition.day
                /\ Hour(now) = condition.hour /\ Minute(now) = 0
          THEN ~(last_fired # Never /\ SecondsBetween(now, last_fired[1]) < 604800)
        ELSE FALSE

\* TriggerEngine.evaluate(trigger, context); the trigger is the engine's object,
\* so its last_fired is the one the engine holds.
EvaluateTrigger(trigger, last_fired, context) ==
    IF ~trigger.enabled THEN FALSE
        ELSE CASE trigger.type = "time_based" ->
                    _evaluate_time_based(trigger.condition, context.current_time, last_fired)
               [] trigger.type = "inactivity" ->
                    _evaluate_inactivity(trigger.condition, context, last_fired)
               [] trigger.type = "schedule" ->
                    _evaluate_schedule(trigger.condition, context.current_time, last_fired)
               [] trigger.type = "keyword" ->
                    _evaluate_keyword(trigger.condition, context)
               [] trigger.type = "pattern" ->
                    _evaluate_pattern(trigger.condition, context, last_fired)
               [] OTHER -> FALSE

\* evaluate on a trigger of the YAML file.
evaluate(id, last_fired, context) == EvaluateTrigger(Triggers[id], last_fired, context)

\* get_fired_triggers(context): the triggers of an engine that evaluate true, in
\* the order of its list.
get_fired_triggers(eng, context) ==
    SelectSeq(TriggerOrder,
              LAMBDA id : id \in eng.ids /\ evaluate(id, eng.last_fired[id], context))

NoEngine == [loaded |-> FALSE, ids |-> {}, last_fired |-> [id \in TriggerIds |-> Never]]

\* _load_triggers: the list of the file, or no trigger when reading it fails.
_load_triggers(file, load_ok) ==
    IF load_ok
      THEN [loaded |-> TRUE, ids |-> file.ids, last_fired |-> file.last_fired]
      ELSE [NoEngine EXCEPT !.loaded = TRUE]

\* The engine after mark_fired(trigger_id) at instant now.
MarkedEngine(eng, trigger_id, now) ==
    IF trigger_id \in eng.ids
      THEN [eng EXCEPT !.last_fired[trigger_id] = <<now>>]
      ELSE eng

\* _save_triggers: the whole list of the engine replaces the file; a failure to
\* write is logged and the file stays.
_save_triggers(file, eng, save_ok) ==
    IF save_ok
      THEN [ ids |-> eng.ids,
             last_fired |-> [id \in TriggerIds |->
                               IF id \in eng.ids THEN eng.last_fired[id] ELSE Never] ]
      ELSE file

Contexts ==
    [ current_time : {Now},
      last_message_time : { Never, <<Now - 8>> },
      recent_messages : { {}, MessageTexts } ]

NoEval == [ id |-> "none", result |-> FALSE, again |-> FALSE, after_mark |-> FALSE ]

NoMark == [ id |-> "none", at |-> 0 ]

MaxMarks == 1

\* TriggerEngine(): the engine is built from the file.
LoadEngine(load_ok) ==
    /\ ~engine.loaded
    /\ engine' = _load_triggers(yaml, load_ok)
    /\ UNCHANGED <<epoch, yaml, lastEval, lastMark, clock, tgRest>>

\* engine.evaluate(trigger, context), called twice on the same inputs.
Evaluate(id, context) ==
    /\ engine.loaded /\ id \in engine.ids
    /\ lastEval' = [ id |-> id,
                     result |-> evaluate(id, engine.last_fired[id], context),
                     again |-> evaluate(id, engine.last_fired[id], context),
                     after_mark |-> lastMark.id = id /\ lastMark.at = Now ]
    /\ UNCHANGED <<epoch, yaml, engine, lastMark, clock, tgRest>>

\* engine.mark_fired(trigger_id); at most MaxMarks triggers are marked in a run.
mark_fired(trigger_id, save_ok) ==
    /\ engine.loaded
    /\ \/ engine.last_fired[trigger_id] # Never
       \/ Cardinality({ id \in TriggerIds : engine.last_fired[id] # Never }) < MaxMarks
    /\ engine' = MarkedEngine(engine, trigger_id, Now)
    /\ yaml' = _save_triggers(yaml, engine', save_ok)
    /\ lastMark' = [id |-> trigger_id, at |-> Now]
    /\ UNCHANGED <<epoch, lastEval, clock, tgRest>>

\* Half an hour passes.
TriggerTick ==
    /\ clock < MaxTicks
    /\ clock' = clock + 1
    /\ UNCHANGED <<epoch, yaml, engine, lastEval, lastMark, tgRest>>

\* The instants the clock starts at: Monday 07:30, Monday 12:30, Monday 21:00.
Epochs == { 15, 25, 42 }

TriggersIdle ==
    /\ epoch = 0
    /\ yaml = [ids |-> TriggerIds, last_fired |-> [id \in TriggerIds |-> Never]]
    /\ engine = NoEngine
    /\ lastEval = NoEval
    /\ lastMark = NoMark

TriggersInit ==
    /\ epoch \in Epochs
    /\ yaml = [ids |-> TriggerIds, last_fired |-> [id \in TriggerIds |-> Never]]
    /\ engine = NoEngine
    /\ lastEval = NoEval
    /\ lastMark = NoMark

TriggersNext ==
    \/ \E load_ok \in BOOLEAN : LoadEngine(load_ok)
    \/ \E id \in TriggerIds, context \in Contexts : Evaluate(id, context)
    \/ \E id \in TriggerIds, save_ok \in BOOLEAN : mark_fired(id, save_ok)
    \/ TriggerTick

(***************************************************************************)
(* background/process.py: the daemon                                       *)
(***************************************************************************)
MaxCycles == 2

\* The module-level names of permissions/config_loader.py.
ConfigLoaderNames == { "load", "reload", "get", "get_all", "get_loader" }

\* datetime.now().strftime("%H:%M"), as its four digits
HHMM(t) == << Hour(t) \div 10, Hour(t) % 10, Minute(t) \div 10, Minute(t) % 10 >>

\* The order of strings: a < b
RECURSIVE StrLess(_, _)
StrLess(a, b) ==
    IF b = <<>> THEN FALSE
    ELSE IF a = <<>> THEN TRUE
    ELSE IF Head(a) # Head(b) THEN Head(a) < Head(b)
    ELSE StrLess(Tail(a), Tail(b))

StrLessEq(a, b) == a = b \/ StrLess(a, b)

\* _load_quiet_hours: the import of load_config and get comes first, and any
\* exception gives the built-in window.
_load_quiet_hours ==
    IF {"load_config", "get"} \subseteq ConfigLoaderNames /\ policyFile.state = "ok"
      THEN PolicyDocs[policyFile.doc]["proactive"].quiet_hours
      ELSE [start |-> <<2, 2, 0, 0>>, end |-> <<0, 8, 0, 0>>]

\* _is_quiet_hours, for the window quiet_hours and the time string current_time
_is_quiet_hours(quiet_hours, current_time) ==
    IF StrLessEq(quiet_hours.start, quiet_hours.end)
      THEN StrLessEq(quiet_hours.start, current_time) /\ StrLess(current_time, quiet_hours.end)
      ELSE StrLessEq(quiet_hours.start, current_time) \/ StrLess(current_time, quiet_hours.end)

\* Thread.updated_at = Column(DateTime, default=datetime.utcnow,
\* onupdate=datetime.utcnow): the stored value carries no time zone.
UpdatedAtZone == "naive"

\* now = datetime.now(timezone.utc): the value carries a time zone.
FollowUpNowZone == "aware"

\* (now - thread.updated_at).total_seconds(): datetime subtraction raises
\* TypeError when one operand carries a time zone and the other does not.
SecondsSinceUpdate(later, later_zone, earlier, earlier_zone) ==
    IF later_zone = earlier_zone
      THEN [raised |-> FALSE, seconds |-> SecondsBetween(later, earlier)]
      ELSE [raised |-> TRUE, seconds |-> 0]

\* should_follow_up(thread_id): waiting, and not updated for an hour; whatever
\* the computation raises is logged and answered with False.
should_follow_up(thread_id) ==
    LET since == SecondsSinceUpdate(clock, FollowUpNowZone,
                                    threads[thread_id].updated_at, UpdatedAtZone)
    IN  /\ threads[thread_id].state = "waiting"
        /\ ~since.raised
        /\ since.seconds >= 1 * 3600

\* _check_follow_ups: the waiting threads that get a follow-up message
_check_follow_ups == { id \in ThreadIds : should_follow_up(id) }

NoCycle ==
    [ count |-> 0, at |-> 0, quiet |-> FALSE, evaluated |-> FALSE, fired |-> <<>>,
      processed |-> <<>>, follow_ups |-> FALSE, followed |-> {} ]

\* The sandbox decision _process_trigger acts on: looking up the member
\* PROACTIVE_MESSAGE of PermissionAction raises when the enum has none, and so
\* does a check that cannot load the policy; both end in the except clause.
ProactiveGate ==
    IF "proactive.message" \notin PermissionAction
      THEN "error"
    ELSE IF check("proactive.message", NoDetails).raised
      THEN "error"
    ELSE IF check("proactive.message", NoDetails).allowed
      THEN "allowed"
    ELSE "blocked"

\* A _process_trigger that opens the thread and sends whatever the gate said.
ProcessIgnoringGate(gate, send_ok) ==
    [ opened |-> TRUE, success |-> send_ok, marked |-> send_ok ]

\* A _process_trigger that calls mark_fired before it knows the send succeeded.
ProcessMarkingFirst(gate, send_ok) ==
    [ opened |-> gate = "allowed",
      success |-> gate = "allowed" /\ send_ok,
      marked |-> TRUE ]

\* _process_trigger after the gate: the thread is opened and the message sent
\* only past an allowed check, and mark_fired follows a successful send.
_process_trigger(gate, send_ok) ==
    [ opened |-> gate = "allowed",
      success |-> gate = "allowed" /\ send_ok,
      marked |-> gate = "allowed" /\ send_ok ]

\* The first thread id without a row.
FreeThread == CHOOSE id \in ThreadIds :
                  threads[id].state = "none" /\ \A j \in ThreadIds : j < id => threads[j].state # "none"

\* run_cycle up to the loop over the fired triggers; in quiet hours it is the
\* whole cycle: the follow-up pass and nothing else.
CycleBegin(last_message_time, load_ok) ==
    LET quiet == _is_quiet_hours(daemon.quiet_hours, HHMM(Now))
        context == [ current_time |-> Now, last_message_time |-> last_message_time,
                     recent_messages |-> {} ]
        eng == IF engine.loaded THEN engine ELSE _load_triggers(yaml, load_ok)
    IN  /\ daemon.pc = "idle"
        /\ daemon.cycle.count < MaxCycles
        /\ IF quiet
             THEN /\ daemon' = [daemon EXCEPT !.cycle =
                          [ count |-> daemon.cycle.count + 1, at |-> Now, quiet |-> TRUE,
                            evaluated |-> FALSE, fired |-> <<>>, processed |-> <<>>,
                            follow_ups |-> TRUE, followed |-> _check_follow_ups ]]
                  /\ UNCHANGED engine
             ELSE /\ engine' = eng
                  /\ daemon' = [daemon EXCEPT
                          !.pc = "processing",
                          !.queue = get_fired_triggers(eng, context),
                          !.cycle =
                            [ count |-> daemon.cycle.count + 1, at |-> Now, quiet |-> FALSE,
                              evaluated |-> TRUE, fired |-> get_fired_triggers(eng, context),
                              processed |-> <<>>, follow_ups |-> FALSE, followed |-> {} ]]
        /\ UNCHANGED <<epoch, yaml, lastEval, lastMark, sbVars, cfVars, thVars, rtVars, xtVars>>

\* _process_trigger(trigger, context) for the next fired trigger of the cycle.
ProcessTrigger(send_ok, load_ok, save_ok) ==
    LET id == Head(daemon.queue)
        gate == ProactiveGate
        did == _process_trigger(gate, send_ok)
        fresh == _load_triggers(yaml, load_ok)
    IN  /\ daemon.pc = "processing"
        /\ daemon.queue # <<>>
        /\ did.opened => \E t \in ThreadIds : threads[t].state = "none"
        /\ IF "proactive.message" \in PermissionAction
             THEN /\ initialized' = (initialized \/ policyFile.state = "ok")
                  /\ loaderConfig' = ConfigAfterEnsure
                  /\ loaderPath' = PathAfterEnsure
             ELSE UNCHANGED <<initialized, loaderConfig, loaderPath>>
        /\ threads' = IF did.opened
                        THEN [threads EXCEPT ![FreeThread] =
                                [state |-> "open", updated_at |-> clock]]
                        ELSE threads
        /\ yaml' = IF did.marked
                     THEN _save_triggers(yaml, MarkedEngine(fresh, id, Now), save_ok)
                     ELSE yaml
        /\ daemon' = [daemon EXCEPT
                        !.queue = Tail(daemon.queue),
                        !.cycle.processed = Append(@,
                            [ id |-> id, gate |-> gate, opened |-> did.opened,
                              success |-> did.success, marked |-> did.marked,
                              memory_changed |-> FALSE,
                              yaml_changed |-> yaml'.last_fired[id] # yaml.last_fired[id] ])]
        /\ UNCHANGED <<policyFile, lastOp, clock, lastUpdate, cfVars,
                       epoch, engine, lastEval, lastMark, rtVars, xtVars>>

\* The end of run_cycle: the follow-up pass after the fired triggers.
CycleEnd ==
    /\ daemon.pc = "processing"
    /\ daemon.queue = <<>>
    /\ daemon' = [daemon EXCEPT !.pc = "idle",
                                !.cycle.follow_ups = TRUE,
                                !.cycle.followed = _check_follow_ups]
    /\ UNCHANGED <<sbVars, thVars, cfVars, tgVars, rtVars, xtVars>>

\* _loop: the sleep between two cycles.
Sleep ==
    /\ daemon.pc = "idle"
    /\ TriggerTick

\* OrionDaemon(): the quiet hours are read once, at construction.
DaemonIdle ==
    daemon = [ quiet_hours |-> _load_quiet_hours, pc |-> "idle", queue |-> <<>>,
               cycle |-> NoCycle ]

DaemonInit ==
    /\ policyFile \in { f \in FileStates : f.state = "ok" }
    /\ loaderConfig = EmptyConfig
    /\ loaderPath = FALSE
    /\ initialized = FALSE
    /\ lastOp = NoOp
    /\ DaemonIdle

DaemonNext ==
    \/ \E lm \in { Never, <<Now - 8>> }, load_ok \in BOOLEAN : CycleBegin(lm, load_ok)
    \/ \E send_ok \in BOOLEAN, load_ok \in BOOLEAN, save_ok \in BOOLEAN :
          ProcessTrigger(send_ok, load_ok, save_ok)
    \/ CycleEnd
    \/ Sleep

(***************************************************************************)
(* core/orchestrator.py and engines/auth/manager.py: routing               *)
(***************************************************************************)
\* The providers the auth manager knows; "local" stands for the Ollama endpoint.
Providers == { "anthropic", "openai", "gemini", "openrouter", "groq", "mistral", "local" }

\* A provider has no credentials ("absent"), or has them and its engine's
\* is_available() answers False ("down") or True ("up").
Statuses(p) == IF p \in {"anthropic", "local"} THEN {"absent", "down", "up"}
               ELSE {"absent", "up"}

\* AuthManager.get_available_providers()
get_available_providers(env) ==
    { p \in Providers \ {"local"} : env.status[p] # "absent" }
        \cup (IF env.status["local"] # "absent" THEN {"ollama", "local"} ELSE {})

_ENGINE_CLASS_MAP ==
    { "anthropic", "openai", "gemini", "openrouter", "groq", "local", "ollama" }

_PRIORITY_MAP ==
    [ t \in { "reasoning", "code", "fast", "multimodal", "local", "voice", "browser",
              "agent", "vision" } |->
        CASE t = "reasoning" -> <<"anthropic", "openai", "gemini", "openrouter", "groq", "local">>
          [] t = "code" -> <<"openai", "anthropic", "groq", "openrouter", "local">>
          [] t = "fast" -> <<"groq", "gemini", "local", "anthropic">>
          [] t = "multimodal" -> <<"gemini", "openai", "anthropic">>
          [] t = "local" -> <<"local">>
          [] t = "voice" -> <<"openai", "anthropic", "gemini", "local">>
          [] t = "browser" -> <<"openai", "anthropic", "openrouter", "local">>
          [] t = "agent" -> <<"anthropic", "openai", "gemini", "local">>
          [] OTHER -> <<"gemini", "openai", "anthropic">> ]

\* The task types callers pass.
TaskTypes == DOMAIN _PRIORITY_MAP \cup { "summarize", " CODE" }

\* task_type.lower().strip()
NormalizeTask(task_type) == IF task_type = " CODE" THEN "code" ELSE task_type

\* _normalize_engine_name: the aliases
_normalize_engine_name(name) ==
    CASE name = "claude" -> "anthropic"
      [] name = "ollama" -> "local"
      [] OTHER -> name

\* _get_engine_instance(name): the canonical key of the instance, "none" for an
\* unknown provider or a constructor that raises.
_get_engine_instance(env, name) ==
    LET canonical == _normalize_engine_name(name)
    IN  IF canonical \notin _ENGINE_CLASS_MAP THEN "none"
        ELSE IF canonical \in env.broken THEN "none"
        ELSE canonical

\* get_available_engines(): the keys of the dict it returns
get_available_engines(env) ==
    LET listed == get_available_providers(env)
        available_providers == IF "ollama" \in listed THEN listed \cup {"local"} ELSE listed
    IN  { _normalize_engine_name(p) : p \in
            { q \in available_providers :
                /\ _get_engine_instance(env, q) # "none"
                /\ env.status[_normalize_engine_name(q)] = "up" } }

\* The priority list route walks for a normalized task type.
PriorityList(normalized_task) ==
    IF normalized_task \in DOMAIN _PRIORITY_MAP
      THEN _PRIORITY_MAP[normalized_task]
      ELSE _PRIORITY_MAP["reasoning"]

\* The first provider of a list that is in a set, "none" if there is none.
FirstIn(list, set) ==
    IF \E i \in 1..Len(list) : list[i] \in set
      THEN list[CHOOSE i \in 1..Len(list) :
                  list[i] \in set /\ \A j \in 1..(i - 1) : list[j] \notin set]
      ELSE "none"

\* A router that takes the last available provider of the list.
RouteLastAvailable(env, task_type) ==
    LET list == PriorityList(NormalizeTask(task_type))
        available == get_available_engines(env)
    IN  IF \E i \in 1..Len(list) : list[i] \in available
          THEN list[CHOOSE i \in 1..Len(list) :
                      list[i] \in available /\ \A j \in (i + 1)..Len(list) : list[j] \notin available]
          ELSE "RuntimeError"

\* route(task_type): the key of the engine returned, or the error raised.
route(env, task_type) ==
    LET normalized_task == NormalizeTask(task_type)
        available == get_available_engines(env)
        priorities == [i \in 1..Len(PriorityList(normalized_task)) |->
                          _normalize_engine_name(PriorityList(normalized_task)[i])]
    IN  IF normalized_task = "local" /\ _get_engine_instance(env, "local") # "none"
          THEN "local"
        ELSE IF FirstIn(priorities, available) # "none"
          THEN FirstIn(priorities, available)
        ELSE "RuntimeError"

NoRoute == [task |-> "none", result |-> "none"]

\* A key is set or unset, an endpoint comes up or goes down.
ProviderChanges(p, st) ==
    /\ st \in Statuses(p)
    /\ providerEnv.status[p] # st
    /\ providerEnv' = [providerEnv EXCEPT !.status[p] = st]
    /\ lastRoute' = NoRoute
    /\ UNCHANGED rtRest

\* The constructor of an engine class starts or stops raising.
ConstructorChanges(broken) ==
    /\ providerEnv.broken # broken
    /\ providerEnv' = [providerEnv EXCEPT !.broken = broken]
    /\ lastRoute' = NoRoute
    /\ UNCHANGED rtRest

Route(task_type) ==
    /\ lastRoute' = [task |-> task_type, result |-> route(providerEnv, task_type)]
    /\ UNCHANGED <<providerEnv, rtRest>>

RouteIdle ==
    /\ providerEnv = [status |-> [p \in Providers |-> "absent"], broken |-> {}]
    /\ lastRoute = NoRoute

RouteNext ==
    \/ \E p \in Providers, st \in {"absent", "down", "up"} : ProviderChanges(p, st)
    \/ \E broken \in { {}, {"local"}, {"anthropic"} } : ConstructorChanges(broken)
    \/ \E t \in TaskTypes : Route(t)

(***************************************************************************)
(* engines/auth: the OAuth token files and AuthManager.get_token           *)
(***************************************************************************)
MaxHours == 1

\* REFRESH_BUFFER = timedelta(hours=1)
REFRESH_BUFFER == 1

OAuthProviders == { "openai", "gemini" }
KeyProviders == { "anthropic", "openai", "gemini", "openrouter", "groq", "mistral" }

\* The value of an API-key variable: unset, an "sk-..." key, or another string.
KeyStates(p) == IF p = "openai" THEN { "unset", "sk", "other" } ELSE { "unset", "set" }

\* The token file: access_token (0 = empty), refresh_token present, expires_at.
NoRecord == [stored |-> FALSE, access |-> 0, refresh |-> FALSE, expires_at |-> 0]

\* What the token endpoint answers to a refresh, and whether the file can be
\* written afterwards; "failed" is a transport error, a status that is not ok
\* or a body that is not JSON.
RefreshOutcomes == { "failed", "ok", "ok_no_access", "write_error" }

\* The lifetimes, in hours, a token response carries.
ExpiresIn == { 1, 3 }

\* _token_expires_soon(expires_at)
_token_expires_soon(expires_at, now) == expires_at <= now + REFRESH_BUFFER

\* _token_is_expired(expires_at)
_token_is_expired(expires_at, now) == expires_at <= now

\* A fresh access token from the token endpoint.
NewAccess(access) == IF access = 1 THEN 2 ELSE 1

\* refresh(): [token, file, raised]; token 0 is None.
refresh(rec, now, outcome, expires_in) ==
    LET none == [token |-> 0, file |-> rec, raised |-> FALSE]
        new_access_token == IF outcome = "ok_no_access" THEN rec.access
                            ELSE NewAccess(rec.access)
    IN  IF ~rec.stored THEN none
        ELSE IF rec.access # 0 /\ ~_token_expires_soon(rec.expires_at, now)
          THEN [none EXCEPT !.token = rec.access]
        ELSE IF ~rec.refresh THEN none
        ELSE IF outcome = "failed" THEN none
        ELSE IF new_access_token = 0 THEN none
        ELSE IF outcome = "write_error" THEN [none EXCEPT !.raised = TRUE]
        ELSE [ token |-> new_access_token,
               file |-> [ stored |-> TRUE, access |-> new_access_token, refresh |-> TRUE,
                          expires_at |-> now + expires_in ],
               raised |-> FALSE ]

\* oauth_openai.get_token() / oauth_gemini.get_token()
oauth_get_token(rec, now, outcome, expires_in) ==
    IF ~rec.stored THEN [token |-> 0, file |-> rec, raised |-> FALSE]
    ELSE IF _token_expires_soon(rec.expires_at, now)
      THEN refresh(rec, now, outcome, expires_in)
    ELSE [token |-> rec.access, file |-> rec, raised |-> FALSE]

\* is_logged_in()
is_logged_in(rec, now) ==
    rec.stored /\ rec.access # 0 /\ ~_token_is_expired(rec.expires_at, now)

\* A credential as the callers of get_token see it: None, "Bearer <access>",
\* the value of the key variable, or the sentinel "local".
NoToken == [kind |-> "none", access |-> 0, key |-> "unset"]

\* AuthManager._env(key) or None
EnvToken(keys, provider) ==
    IF keys[provider] = "unset" THEN NoToken
    ELSE [kind |-> "key", access |-> 0, key |-> keys[provider]]

\* AuthManager.get_token(provider): [token, files, raised]
get_token(files, keys, now, provider, outcome, expires_in) ==
    IF provider \in OAuthProviders
      THEN LET t == oauth_get_token(files[provider], now, outcome, expires_in)
           IN  [ token |-> IF t.raised THEN NoToken
                           ELSE IF t.token # 0
                             THEN [kind |-> "bearer", access |-> t.token, key |-> "unset"]
                           ELSE EnvToken(keys, provider),
                 files |-> [files EXCEPT ![provider] = t.file],
                 raised |-> t.raised ]
    ELSE IF provider \in KeyProviders
      THEN [token |-> EnvToken(keys, provider), files |-> files, raised |-> FALSE]
    ELSE IF provider \in {"ollama", "local"}
      THEN [ token |-> [kind |-> "local", access |-> 0, key |-> "unset"],
             files |-> files, raised |-> FALSE ]
    ELSE [token |-> NoToken, files |-> files, raised |-> FALSE]

NoTokenCall ==
    [ provider |-> "none", before |-> NoRecord, after |-> NoRecord, key |-> "unset",
      outcome |-> "ok", token |-> NoToken, raised |-> FALSE ]

NoCall ==
    [ engine |-> "none", op |-> "none", failed |-> FALSE, texts |-> 0, ending |-> "none" ]

\* login(): the device flow stores a record.
Login(p, has_refresh, expires_in) ==
    /\ oauth' = [oauth EXCEPT ![p] =
                    [ stored |-> TRUE, access |-> NewAccess(oauth[p].access),
                      refresh |-> has_refresh, expires_at |-> authNow + expires_in ]]
    /\ lastToken' = NoTokenCall
    /\ lastCall' = NoCall
    /\ UNCHANGED <<authNow, envKeys, auRest>>

\* logout(): the file is removed.
Logout(p) ==
    /\ oauth[p].stored
    /\ oauth' = [oauth EXCEPT ![p] = NoRecord]
    /\ lastToken' = NoTokenCall
    /\ lastCall' = NoCall
    /\ UNCHANGED <<authNow, envKeys, auRest>>

\* The operator sets or unsets an API-key variable.
SetEnv(p, k) ==
    /\ k \in KeyStates(p)
    /\ envKeys[p] # k
    /\ envKeys' = [envKeys EXCEPT ![p] = k]
    /\ lastToken' = NoTokenCall
    /\ lastCall' = NoCall
    /\ UNCHANGED <<authNow, oauth, auRest>>

AuthTick ==
    /\ authNow < MaxHours
    /\ authNow' = authNow + 1
    /\ lastToken' = NoTokenCall
    /\ lastCall' = NoCall
    /\ UNCHANGED <<oauth, envKeys, auRest>>

\* A call of AuthManager.get_token(provider).
GetToken(provider, outcome, expires_in) ==
    LET r == get_token(oauth, envKeys, authNow, provider, outcome, expires_in)
    IN  /\ oauth' = r.files
        /\ lastToken' =
              [ provider |-> provider,
                before |-> IF provider \in OAuthProviders THEN oauth[provider] ELSE NoRecord,
                after |-> IF provider \in OAuthProviders THEN r.files[provider] ELSE NoRecord,
                key |-> IF provider \in KeyProviders THEN envKeys[provider] ELSE "unset",
                outcome |-> outcome,
                token |-> r.token, raised |-> r.raised ]
        /\ lastCall' = NoCall
        /\ UNCHANGED <<authNow, envKeys, auRest>>

AuthIdle ==
    /\ authNow = 0
    /\ oauth = [p \in OAuthProviders |-> NoRecord]
    /\ envKeys = [p \in KeyProviders |-> "unset"]
    /\ lastToken = NoTokenCall
    /\ lastCall = NoCall

AuthNext ==
    \/ \E p \in OAuthProviders, has_refresh \in BOOLEAN, e \in ExpiresIn : Login(p, has_refresh, e)
    \/ \E p \in OAuthProviders : Logout(p)
    \/ \E p \in OAuthProviders, k \in {"unset", "sk", "other", "set"} : SetEnv(p, k)
    \/ AuthTick
    \/ \E p \in OAuthProviders \cup {"groq"}, o \in RefreshOutcomes, e \in ExpiresIn :
          GetToken(p, o, e)

(***************************************************************************)
(* engines/*.py: generate and stream of the six engines                    *)
(***************************************************************************)
Engines == { "anthropic", "openai", "gemini", "openrouter", "groq", "local" }

\* The provider call: it answers, it fails at once, or it fails after the
\* first chunk of a stream.
ApiOutcomes == { "ok", "fail", "fail_mid" }

\* _resolve_token of the OpenAI and Gemini engines, _get_api_key of the
\* OpenRouter and Groq engines: the mode, or the RuntimeError raised.
_resolve_token(e, token) ==
    IF token.kind = "none" THEN "RuntimeError"
    ELSE IF token.kind = "bearer"
      THEN (IF e \in {"openai", "gemini"} THEN "oauth" ELSE "api_key")
    ELSE IF e = "openai" /\ token.key # "sk" THEN "RuntimeError"
    ELSE "api_key"

\* The credential an engine call resolves, with the effect on the token files:
\* the Claude engine reads config.ANTHROPIC_API_KEY, the local engine none.
EngineCredential(e, outcome, expires_in) ==
    IF e = "anthropic"
      THEN [token |-> EnvToken(envKeys, "anthropic"), files |-> oauth, raised |-> FALSE]
    ELSE get_token(oauth, envKeys, authNow, e, outcome, expires_in)

\* How a call ends once the credential is known; "error" is the "[Error] ..."
\* string, "raised" an exception that leaves generate or the stream iterator.
\* resolve_caught: the call catches the RuntimeError of the credential lookup.
EngineEnding(e, cred, sdk_ok, ollama_up, api, resolve_caught) ==
    CASE e = "anthropic" ->
            IF cred.token.kind = "none" \/ ~sdk_ok THEN "error"
            ELSE IF api # "ok" THEN "error" ELSE "text"
      [] e = "local" ->
            IF ~ollama_up THEN "error"
            ELSE IF api # "ok" THEN "error" ELSE "text"
      [] e \in {"openai", "gemini"} ->
            IF cred.raised THEN "raised"
            ELSE IF _resolve_token(e, cred.token) = "RuntimeError"
              THEN (IF resolve_caught THEN "error" ELSE "raised")
            ELSE IF _resolve_token(e, cred.token) = "oauth"
              THEN (IF api # "ok" THEN "error" ELSE "text")
            ELSE IF e = "openai" /\ ~sdk_ok THEN "raised"
            ELSE IF e = "gemini" /\ ~sdk_ok THEN "error"
            ELSE IF api # "ok" THEN "error" ELSE "text"
      [] OTHER ->
            IF _resolve_token(e, cred.token) = "RuntimeError" THEN "error"
            ELSE IF ~sdk_ok THEN "raised"
            ELSE IF api # "ok" THEN "error" ELSE "text"

\* Something failed in the call: the credential is missing or unusable, the
\* client cannot be built, the endpoint is down or the provider call fails.
CallFailed(e, cred, sdk_ok, ollama_up, api) ==
    \/ api # "ok"
    \/ e = "local" /\ ~ollama_up
    \/ e # "local" /\ (cred.raised \/ _resolve_token(e, cred.token) = "RuntimeError")
    \/ /\ e \in Engines \ {"local"}
       /\ ~(e \in {"openai", "gemini"} /\ _resolve_token(e, cred.token) = "oauth")
       /\ ~sdk_ok

\* generate(prompt, context)
generate(e, cred, sdk_ok, ollama_up, api) ==
    [ engine |-> e, op |-> "generate",
      failed |-> CallFailed(e, cred, sdk_ok, ollama_up, api),
      texts |-> 0,
      ending |-> EngineEnding(e, cred, sdk_ok, ollama_up, api,
                              e \in {"openrouter", "groq"}) ]

\* stream(prompt, context): the chunks of text yielded, then how it stops.
stream(e, cred, sdk_ok, ollama_up, api) ==
    LET ending == EngineEnding(e, cred, sdk_ok, ollama_up, api, TRUE)
        reached == ending = "text" \/ (ending = "error" /\ api # "ok"
                      /\ ~CallFailed(e, cred, sdk_ok, ollama_up, "ok"))
    IN  [ engine |-> e, op |-> "stream",
          failed |-> CallFailed(e, cred, sdk_ok, ollama_up, api),
          texts |-> IF reached /\ api # "fail" THEN 1 ELSE 0,
          ending |-> ending ]

Generate(e, outcome, expires_in, sdk_ok, ollama_up, api) ==
    LET cred == EngineCredential(e, outcome, expires_in)
    IN  /\ oauth' = cred.files
        /\ lastCall' = generate(e, cred, sdk_ok, ollama_up, api)
        /\ lastToken' = NoTokenCall
        /\ UNCHANGED <<authNow, envKeys, auRest>>

Stream(e, outcome, expires_in, sdk_ok, ollama_up, api) ==
    LET cred == EngineCredential(e, outcome, expires_in)
    IN  /\ oauth' = cred.files
        /\ lastCall' = stream(e, cred, sdk_ok, ollama_up, api)
        /\ lastToken' = NoTokenCall
        /\ UNCHANGED <<authNow, envKeys, auRest>>

\* The token files an engine process may start with: none, a record good for
\* three hours, a record that expires within the hour.
StartRecords ==
    { NoRecord,
      [stored |-> TRUE, access |-> 1, refresh |-> TRUE, expires_at |-> 3],
      [stored |-> TRUE, access |-> 1, refresh |-> TRUE, expires_at |-> 1] }

\* What a call meets outside the engine: the refresh outcome (OAuth providers),
\* whether the SDK imports and builds its client, whether Ollama answers.
CallInputs(e) ==
    IF e = "local"
      THEN { [outcome |-> "ok", sdk_ok |-> TRUE, ollama_up |-> b] : b \in BOOLEAN }
    ELSE IF e \in OAuthProviders
      THEN { [outcome |-> o, sdk_ok |-> b, ollama_up |-> TRUE] :
                o \in RefreshOutcomes, b \in BOOLEAN }
    ELSE { [outcome |-> "ok", sdk_ok |-> b, ollama_up |-> TRUE] : b \in BOOLEAN }

\* The lifetime, in hours, of a token refreshed during an engine call.
EngineExpiresIn == 3

EnginesInit ==
    /\ authNow = 0
    /\ oauth \in [OAuthProviders -> StartRecords]
    /\ envKeys \in { k \in [KeyProviders -> {"unset", "sk", "other", "set"}] :
                        /\ \A p \in KeyProviders : k[p] \in KeyStates(p)
                        /\ k["mistral"] = "unset" }
    /\ lastToken = NoTokenCall
    /\ lastCall = NoCall

EnginesNext ==
    \/ \E e \in Engines, api \in {"ok", "fail"} : \E in \in CallInputs(e) :
          Generate(e, in.outcome, EngineExpiresIn, in.sdk_ok, in.ollama_up, api)
    \/ \E e \in Engines, api \in ApiOutcomes : \E in \in CallInputs(e) :
          Stream(e, in.outcome, EngineExpiresIn, in.sdk_ok, in.ollama_up, api)

(***************************************************************************)
(* core/memory.py: save_message, compress_old_sessions,                    *)
(* get_relevant_context, over the relational store and the vector store    *)
(***************************************************************************)
MaxSessions == 2
MaxMessages == 3

\* The user ids callers pass; the empty string is a value a caller can pass.
UserIds == { "owner", "guest", "" }

Callers == { 1, 2 }
SessionIds == 1..MaxSessions

\* A Session row. status: "none" (no row), "open" (ended_at NULL), "recent"
\* (ended after the cutoff), "old" (ended before the cutoff). had counts the
\* Message rows ever committed with this session id.
NoSession ==
    [user |-> "none", status |-> "none", message_count |-> 0, summary |-> FALSE, had |-> 0]

\* The rows of a session in the messages table.
RowsOf(session_id) == { m \in messages : m.session = session_id }

\* _get_active_session: the open session the SELECT returns, 0 when there is
\* none (the caller then adds a new row).
OpenSessions(user) == { i \in SessionIds : sessions[i].status = "open" /\ sessions[i].user = user }

\* Session.id of a new row, Message.id of a new row.
FreeSession == CHOOSE i \in SessionIds : sessions[i].status = "none"
                  /\ \A j \in 1..(i - 1) : sessions[j].status # "none"
NextMessageId ==
    1 + (LET total[i \in 0..MaxSessions] ==
                 IF i = 0 THEN 0 ELSE total[i - 1] + sessions[i].had
         IN  total[MaxSessions])

\* The save_message calls between their SELECT and their commit.
InFlight == { c \in Callers : saves[c].pc = "read" }

\* The vector entry of a message and of a chunk of a document.
MessageEntry(msg_id, meta_user, owner) ==
    [kind |-> "msg", doc |-> 0, idx |-> msg_id, user_id |-> meta_user, owner |-> owner]

NoSave ==
    [ pc |-> "idle", user |-> "none", meta_user |-> "none", session |-> 0, count_seen |-> 0,
      created |-> FALSE, beside_open |-> FALSE, msg |-> 0, committed |-> FALSE,
      upsert |-> "none",
      row_after |-> FALSE, result |-> "none", value |-> "none" ]

\* save_message up to the SELECT of _get_active_session: the session the
\* transaction sees and the message_count it loads. metadata may carry a
\* user_id of its own, which is merged over the caller's in vec_meta.
SaveBegin(c, user_id, meta_user) ==
    /\ saves[c].pc \in {"idle", "done"}
    /\ NextMessageId + Cardinality(InFlight) <= MaxMessages
    /\ Cardinality({ i \in SessionIds : sessions[i].status = "none" }) > Cardinality(InFlight)
    /\ LET open == OpenSessions(user_id)
           seen == IF open = {} THEN 0 ELSE CHOOSE i \in open : \A j \in open : j <= i
       IN  saves' = [saves EXCEPT ![c] =
                        [ NoSave EXCEPT !.pc = "read", !.user = user_id,
                                        !.meta_user = meta_user, !.session = seen,
                                        !.count_seen = IF seen = 0 THEN 0
                                                       ELSE sessions[seen].message_count ]]
    /\ UNCHANGED <<sessions, messages, compressed, vectors, lastCompress, lastSearch,
                   ingested, lastDoc, mmRest>>

\* How save_message ends after the relational part: the vector upsert is tried
\* and its failure is only logged.
AfterCommitPropagating(upsert_ok) ==
    [ upsert |-> IF upsert_ok THEN "ok" ELSE "failed",
      result |-> IF upsert_ok THEN "returned" ELSE "raised", value |-> "None" ]

AfterCommit(upsert_ok) ==
    [ upsert |-> IF upsert_ok THEN "ok" ELSE "failed", result |-> "returned", value |-> "None" ]

\* save_message from db.add to db.commit: the new Session row if none was
\* seen, the Message row, the incremented message_count, in one transaction;
\* a failure rolls back and is re-raised.
SaveCommit(c, commit_ok) ==
    /\ saves[c].pc = "read"
    /\ LET sv == saves[c]
           new == sv.session = 0
           sid == IF new THEN FreeSession ELSE sv.session
           mid == NextMessageId
       IN  IF commit_ok
             THEN /\ sessions' =
                       [sessions EXCEPT ![sid] =
                          [ user |-> sv.user,
                            status |-> IF new THEN "open" ELSE @.status,
                            message_count |-> sv.count_seen + 1,
                            summary |-> IF new THEN FALSE ELSE @.summary,
                            had |-> @.had + 1 ]]
                  /\ messages' = messages \cup {[id |-> mid, session |-> sid, user |-> sv.user]}
                  /\ saves' = [saves EXCEPT ![c].pc = "committed", ![c].session = sid,
                                            ![c].created = new,
                                            ![c].beside_open =
                                                new /\ OpenSessions(sv.user) # {},
                                            ![c].msg = mid,
                                            ![c].committed = TRUE]
             ELSE /\ saves' = [saves EXCEPT ![c].pc = "done", ![c].result = "raised"]
                  /\ UNCHANGED <<sessions, messages>>
    /\ UNCHANGED <<compressed, vectors, lastCompress, lastSearch, ingested, lastDoc, mmRest>>

\* save_message after the commit: the best-effort vector upsert, then return.
SaveUpsert(c, upsert_ok) ==
    /\ saves[c].pc = "committed"
    /\ LET sv == saves[c]
           end == AfterCommit(upsert_ok)
       IN  /\ vectors' = IF end.upsert = "ok"
                           THEN { v \in vectors : ~(v.kind = "msg" /\ v.idx = sv.msg) }
                                   \cup { MessageEntry(sv.msg, sv.meta_user, sv.user) }
                           ELSE vectors
           /\ saves' = [saves EXCEPT ![c].pc = "done", ![c].upsert = end.upsert,
                                     ![c].result = end.result, ![c].value = end.value,
                                     ![c].row_after = \E m \in messages : m.id = sv.msg]
    /\ UNCHANGED <<sessions, messages, compressed, lastCompress, lastSearch, ingested, lastDoc,
                   mmRest>>

\* A session is closed: ended_at is set to the current time.
EndSession(i) ==
    /\ sessions[i].status = "open"
    /\ sessions' = [sessions EXCEPT ![i].status = "recent"]
    /\ UNCHANGED <<messages, compressed, vectors, saves, lastCompress, lastSearch,
                   ingested, lastDoc, mmRest>>

\* older_than_days pass: the sessions that had ended are now before the cutoff.
\* No save_message call lasts that long.
Age ==
    /\ InFlight = {}
    /\ \A c \in Callers : saves[c].pc # "committed"
    /\ \E i \in SessionIds : sessions[i].status = "recent"
    /\ sessions' = [i \in SessionIds |->
                      IF sessions[i].status = "recent"
                        THEN [sessions[i] EXCEPT !.status = "old"] ELSE sessions[i]]
    /\ UNCHANGED <<messages, compressed, vectors, saves, lastCompress, lastSearch,
                   ingested, lastDoc, mmRest>>

\* The sessions compress_old_sessions selects for a user.
Eligible(user_id) ==
    { i \in SessionIds : /\ sessions[i].user = user_id
                         /\ sessions[i].status = "old"
                         /\ ~sessions[i].summary }

CompressedSessionKeepingRows(sess) ==
    [ summary |-> TRUE,
      memories |-> Append(compressed[sess], Cardinality(RowsOf(sess))),
      deleted |-> {} ]

\* One pass of the loop of compress_old_sessions over a session, committed:
\* the summary is stamped; with messages, a CompressedMemory is written and the
\* Message rows are deleted in the same transaction.
CompressedSession(sess) ==
    IF RowsOf(sess) = {}
      THEN [ summary |-> TRUE, memories |-> compressed[sess], deleted |-> {} ]
      ELSE [ summary |-> TRUE,
             memories |-> Append(compressed[sess], Cardinality(RowsOf(sess))),
             deleted |-> RowsOf(sess) ]

NoCompress == [user |-> "none", done |-> {}, raised |-> FALSE]

\* compress_old_sessions(user_id): the sessions in done are committed one by
\* one; when a commit fails the run rolls that session back and raises. The
\* vector entries of the deleted messages are removed when the store answers.
compress_old_sessions(user_id, done, vector_ok) ==
    /\ done \subseteq Eligible(user_id)
    /\ sessions' = [i \in SessionIds |->
                      IF i \in done
                        THEN [sessions[i] EXCEPT !.summary = CompressedSession(i).summary]
                        ELSE sessions[i]]
    /\ compressed' = [i \in SessionIds |->
                        IF i \in done THEN CompressedSession(i).memories ELSE compressed[i]]
    /\ messages' = messages \ UNION { CompressedSession(i).deleted : i \in done }
    /\ vectors' = IF vector_ok
                    THEN { v \in vectors :
                             ~(v.kind = "msg" /\ \E i \in done :
                                   \E m \in CompressedSession(i).deleted : m.id = v.idx) }
                    ELSE vectors
    /\ lastCompress' = [ user |-> user_id, done |-> done,
                         raised |-> done # Eligible(user_id) ]
    /\ UNCHANGED <<saves, lastSearch, ingested, lastDoc, mmRest>>

NoSearch == [user |-> "none", results |-> {}]

\* vector_store.search with an equality filter (None: no filter), before the
\* cut to top_k.
search(filters) ==
    { v \in vectors : filters.any \/ v.user_id = filters.user_id }

\* get_relevant_context(user_id, query, top_k): the filter is built only for a
\* non-empty user_id; a failing search returns [].
get_relevant_context(user_id, search_ok) ==
    /\ lastSearch' =
          [ user |-> user_id,
            results |-> IF search_ok
                          THEN search([any |-> user_id = "", user_id |-> user_id])
                          ELSE {} ]
    /\ UNCHANGED <<sessions, messages, compressed, vectors, saves, lastCompress,
                   ingested, lastDoc, mmRest>>

(***************************************************************************)
(* core/rag.py: ingest and delete_document                                 *)
(***************************************************************************)
MaxDocs == 2

\* RecursiveCharacterTextSplitter(chunk_size=512, chunk_overlap=50)
chunk_size == 512
chunk_overlap == 50

_MAX_CHUNKS_PER_DOC == 500

\* The number of chunks split_text makes of a text of the given length that
\* holds no separator: a chunk starts every chunk_size - chunk_overlap
\* characters. A text that is empty or only whitespace has length 0 here.
NumChunks(length) ==
    IF length <= chunk_size THEN 1
    ELSE LET step == chunk_size - chunk_overlap
         IN  ((length - chunk_overlap) + step - 1) \div step

\* The longest text whose chunks all have an index below _MAX_CHUNKS_PER_DOC.
LongestCovered == _MAX_CHUNKS_PER_DOC * (chunk_size - chunk_overlap) + chunk_overlap

TextLengths == { 0, 40, chunk_size + 1, LongestCovered, LongestCovered + 1 }
ChatTexts == { 0, 40 }

\* The vector entry of chunk i of a document: id "<parent>_chunk_<i>".
ChunkEntry(parent_doc_id, i, user_id) ==
    [kind |-> "chunk", doc |-> parent_doc_id, idx |-> i, user_id |-> user_id, owner |-> user_id]

NoDoc == [ op |-> "none", doc |-> 0, user |-> "none", chunks |-> 0, written |-> 0,
           raised |-> FALSE, store_ok |-> TRUE ]

\* ingest(text, source, user_id): "" and no write for an empty text; otherwise
\* a fresh parent id and one upsert per chunk, in order. An upsert that raises
\* ends the call with the chunks before it written.
ingest(length, user_id, fail) ==
    /\ Len(ingested) < MaxDocs
    /\ IF length = 0
         THEN /\ lastDoc' = [NoDoc EXCEPT !.op = "ingest", !.user = user_id]
              /\ UNCHANGED <<vectors, ingested>>
         ELSE LET parent_doc_id == Len(ingested) + 1
                  n == NumChunks(length)
                  written == CASE fail = "none" -> n
                               [] fail = "first" -> 0
                               [] OTHER -> n - 1
              IN  /\ ingested' = Append(ingested, [returned |-> fail = "none", chunks |-> n])
                  /\ vectors' = vectors \cup
                        { ChunkEntry(parent_doc_id, i, user_id) : i \in 0..(written - 1) }
                  /\ lastDoc' = [ op |-> "ingest",
                                  doc |-> IF fail = "none" THEN parent_doc_id ELSE 0,
                                  user |-> user_id, chunks |-> n, written |-> written,
                                  raised |-> fail # "none", store_ok |-> fail = "none" ]
    /\ UNCHANGED <<sessions, messages, compressed, saves, lastCompress, lastSearch, mmRest>>

\* The ids delete_document asks the store to delete.
candidate_ids(doc_id) == { [doc |-> doc_id, idx |-> i] : i \in 0..(_MAX_CHUNKS_PER_DOC - 1) }

\* delete_document(doc_id): one batch delete of the candidate ids; a failure of
\* the store is logged and swallowed.
delete_document(doc_id, store_ok) ==
    /\ vectors' = IF store_ok
                    THEN { v \in vectors :
                             ~(v.kind = "chunk"
                                 /\ [doc |-> v.doc, idx |-> v.idx] \in candidate_ids(doc_id)) }
                    ELSE vectors
    /\ lastDoc' = [ NoDoc EXCEPT !.op = "delete", !.doc = doc_id, !.store_ok = store_ok ]
    /\ UNCHANGED <<sessions, messages, compressed, saves, lastCompress, lastSearch, ingested,
                   mmRest>>

MemoryIdle ==
    /\ sessions = [i \in SessionIds |-> NoSession]
    /\ messages = {}
    /\ compressed = [i \in SessionIds |-> <<>>]
    /\ vectors = {}
    /\ saves = [c \in Callers |-> NoSave]
    /\ lastCompress = NoCompress
    /\ lastSearch = NoSearch
    /\ ingested = <<>>
    /\ lastDoc = NoDoc

\* The relational side: concurrent save_message calls, the closing of sessions
\* and compression. The metadata of these messages carries no user_id.
MemoryNext ==
    \/ \E c \in Callers, u \in {"owner", "guest"} : SaveBegin(c, u, u)
    \/ \E c \in Callers, commit_ok \in BOOLEAN : SaveCommit(c, commit_ok)
    \/ \E c \in Callers, upsert_ok \in BOOLEAN : SaveUpsert(c, upsert_ok)
    \/ \E i \in SessionIds : EndSession(i)
    \/ Age
    \/ \E u \in {"owner", "guest"}, vector_ok \in BOOLEAN : \E done \in SUBSET Eligible(u) :
          compress_old_sessions(u, done, vector_ok)

\* One caller at a time: save_message calls in sequence, the closing of
\* sessions and compression runs between them.
CompressNext ==
    \/ \E u \in {"owner", "guest"} : SaveBegin(1, u, u)
    \/ \E commit_ok \in BOOLEAN : SaveCommit(1, commit_ok)
    \/ \E upsert_ok \in BOOLEAN : SaveUpsert(1, upsert_ok)
    \/ \E i \in SessionIds : EndSession(i)
    \/ Age
    \/ \E u \in {"owner", "guest"}, vector_ok \in BOOLEAN : \E done \in SUBSET Eligible(u) :
          compress_old_sessions(u, done, vector_ok)

\* The vector side: messages and documents of several users, and the search.
SearchNext ==
    \/ \E u \in UserIds, mu \in {"guest", "none"} :
          SaveBegin(1, u, IF mu = "none" THEN u ELSE mu)
    \/ SaveCommit(1, TRUE)
    \/ \E upsert_ok \in BOOLEAN : SaveUpsert(1, upsert_ok)
    \/ \E l \in ChatTexts, u \in UserIds : ingest(l, u, "none")
    \/ \E u \in UserIds, search_ok \in BOOLEAN : get_relevant_context(u, search_ok)

RagNext ==
    \/ \E l \in TextLengths, u \in {"owner", "guest"}, fail \in {"none", "first", "last"} :
          ingest(l, u, fail)
    \/ \E d \in 1..MaxDocs, store_ok \in BOOLEAN : delete_document(d, store_ok)

(***************************************************************************)
(* Context truncation (src/core/context.py)                                *)
(***************************************************************************)
MaxContext == 3
MaxBudget == 2
CHARS_PER_TOKEN == 4

Roles == { "system", "user", "assistant" }

\* The lengths of the contents: empty, just under, at and over one token's
\* worth of characters.
ContentLengths == { 0, CHARS_PER_TOKEN - 1, CHARS_PER_TOKEN, CHARS_PER_TOKEN + 1 }

\* A message is its role, the length of its content and, to tell equal
\* messages apart, its position in the list handed to truncate_context.
ContextMessages(n) ==
    { m \in [1..n -> [role : Roles, chars : ContentLengths, pos : 1..MaxContext]] :
        \A i \in 1..n : m[i].pos = i }

IsSystem(m) == m.role = "system"

IsConversation(m) == m.role # "system"

system_messages(msgs) == SelectSeq(msgs, IsSystem)

conversation_messages(msgs) == SelectSeq(msgs, IsConversation)

RECURSIVE TotalChars(_)
TotalChars(msgs) ==
    IF msgs = <<>> THEN 0 ELSE Head(msgs).chars + TotalChars(Tail(msgs))

system_chars(msgs) == TotalChars(system_messages(msgs))

remaining_chars_of_whole_budget(msgs, max_tokens) == max_tokens * CHARS_PER_TOKEN

remaining_chars(msgs, max_tokens) ==
    max_tokens * CHARS_PER_TOKEN - system_chars(msgs)

\* The loop over the conversation from its newest message backwards: a message
\* that fits is kept in front of the kept ones, the first that does not fit
\* ends the loop.
RECURSIVE kept_conversation(_, _, _, _)
kept_conversation(conv, i, total_chars, remaining) ==
    IF i = 0 \/ total_chars + conv[i].chars > remaining
      THEN IF i = Len(conv) THEN <<>> ELSE SubSeq(conv, i + 1, Len(conv))
      ELSE kept_conversation(conv, i - 1, total_chars + conv[i].chars, remaining)

truncate_context(msgs, max_tokens) ==
    IF msgs = <<>>
      THEN msgs
      ELSE IF remaining_chars(msgs, max_tokens) <= 0
             THEN IF system_messages(msgs) = <<>>
                    THEN <<>>
                    ELSE <<system_messages(msgs)[1]>>
             ELSE system_messages(msgs)
                    \o kept_conversation(conversation_messages(msgs),
                                         Len(conversation_messages(msgs)), 0,
                                         remaining_chars(msgs, max_tokens))

NoContext == [ pc |-> "idle", messages |-> <<>>, max_tokens |-> 0, result |-> <<>> ]

ContextIdle == trimmed = NoContext

\* Any list of up to MaxContext messages and any budget up to MaxBudget tokens.
ContextInit ==
    \E n \in 0..MaxContext : \E msgs \in ContextMessages(n) : \E b \in 0..MaxBudget :
        trimmed = [ pc |-> "called", messages |-> msgs, max_tokens |-> b, result |-> <<>> ]

Truncate ==
    /\ trimmed.pc = "called"
    /\ trimmed' = [ trimmed EXCEPT !.pc = "done",
                                   !.result = truncate_context(trimmed.messages,
                                                               trimmed.max_tokens) ]
    /\ UNCHANGED cxRest

ContextNext == Truncate

(***************************************************************************)
(* background/triggers: evaluate on a time_based trigger, as a function of *)
(* the trigger, the current time and last_fired.                           *)
(***************************************************************************)

\* Tuesday 08:00 of the first week, in half hours since Monday 00:00.
TuesdayEight == 48 + 16

\* The instants an evaluate call is made at: Tuesday 07:30, 08:00 and 08:30,
\* Wednesday 07:00 and 08:00, Tuesday 08:00 of the next week, Monday 08:00.
TimedNows ==
    { TuesdayEight - 1, TuesdayEight, TuesdayEight + 1, TuesdayEight + 46,
      TuesdayEight + 48, TuesdayEight + 7 * 48, 16 }

\* How long before the call the trigger was marked fired, in half hours:
\* just now, half an hour, 22.5, 23, 23.5 and 24 hours, a week.
TimedAges == { 0, 1, 45, 46, 47, 48, 7 * 48 }

TimedDays == { {}, {"tue"}, {"mon", "tue", "wed", "thu", "fri"} }

TimedIdle ==
    [ pc |-> "idle", enabled |-> TRUE, condition |-> NoCondition, now |-> 0,
      last_fired |-> Never, result |-> FALSE ]

\* The time_based triggers and the calls made on them.
TimedInit ==
    \E enabled \in BOOLEAN, days \in TimedDays, minute \in {0, 30}, now \in TimedNows :
      \E last_fired \in {Never} \cup { <<now - age>> : age \in { a \in TimedAges : a <= now } } :
        timed = [ TimedIdle EXCEPT
                    !.enabled = enabled,
                    !.condition = [NoCondition EXCEPT !.hour = 8, !.minute = minute,
                                                      !.days = days],
                    !.now = now, !.last_fired = last_fired ]

\* engine.evaluate(trigger, {"current_time": now}) on the time_based trigger.
TimedEvaluate ==
    /\ timed.pc = "idle"
    /\ timed' = [timed EXCEPT
                   !.pc = "done",
                   !.result = EvaluateTrigger(
                                 [type |-> "time_based", enabled |-> timed.enabled,
                                  condition |-> timed.condition],
                                 timed.last_fired,
                                 [current_time |-> timed.now, last_message_time |-> Never,
                                  recent_messages |-> {}])]
    /\ UNCHANGED tmRest

TimedNext == TimedEvaluate


(***************************************************************************)
(* permissions/sandbox.py: check as a function of the policy document, the *)
(* action and the details.                                                 *)
(***************************************************************************)

\* A section with its require_confirm key: "absent" leaves the key out.
WithConfirm(section, rc) ==
    IF rc = "absent" THEN section ELSE [require_confirm |-> (rc = "true")] @@ section

\* A policy document whose gated sections all carry the same enabled flag and
\* the same require_confirm key, with the path lists of file_system given.
CheckPolicy(en, rc, wr, blocked, allowed) ==
    [ s \in REQUIRED_SECTIONS |->
        CASE s = "file_system" ->
               WithConfirm([ enabled |-> en, read |-> TRUE, write |-> wr, delete |-> TRUE,
                             blocked_paths |-> blocked, allowed_paths |-> allowed ], rc)
          [] s = "terminal" ->
               WithConfirm([ enabled |-> en, blocked_commands |-> {<<"r", "m">>} ], rc)
          [] s = "calendar" ->
               WithConfirm([ enabled |-> en, read |-> TRUE, write |-> wr ], rc)
          [] s = "app_control" ->
               WithConfirm([ enabled |-> en, allowed_apps |-> {<<"A">>} ], rc)
          [] s = "browsing" ->
               WithConfirm([ enabled |-> en, blocked_domains |-> {}, allowed_domains |-> {} ], rc)
          [] OTHER -> WithConfirm([ enabled |-> en ], rc) ]

\* blocked_paths: none, "/e" (as /etc), "~/s" (as ~/.ssh).
BlockedLists == { {}, {<<"e">>}, {<<"~", "s">>} }

\* allowed_paths: none, "~" alone, "~" and "/e/x".
AllowedLists == { {}, {<<"~">>}, {<<"~">>, <<"e", "x">>} }

\* details.path: absent, under the home directory, under ~/s written with the
\* home directory and with "~", under /e, elsewhere.
CheckPaths ==
    { <<>>, <<"h", "a">>, <<"h", "s", "k">>, <<"~", "s", "k">>, <<"e", "x">>, <<"o">> }

CheckIdle ==
    [ pc |-> "idle", config |-> <<>>, action |-> "none", details |-> NoDetails,
      result |-> Result(FALSE, FALSE, "none") ]

\* The details of a call: a path (or none), a command, an app name.
CheckedDetails ==
    { [NoDetails EXCEPT !.path = p] : p \in CheckPaths }
      \cup { [NoDetails EXCEPT !.command = c] : c \in {<<"l", "s">>, <<"r", "m">>} }
      \cup { [NoDetails EXCEPT !.app = a] : a \in {<<"a">>, <<"A">>, <<"b">>} }

CheckInit ==
    \E en \in BOOLEAN, rc \in {"absent", "true", "false"}, wr \in BOOLEAN,
       blocked \in BlockedLists, allowed \in AllowedLists,
       action \in TypedActions, details \in CheckedDetails :
        checked = [ CheckIdle EXCEPT
                      !.config = CheckPolicy(en, rc, wr, blocked, allowed),
                      !.action = action,
                      !.details = details ]

\* sandbox.check(action, details) with the policy document loaded.
CheckCall ==
    /\ checked.pc = "idle"
    /\ checked' = [checked EXCEPT
                     !.pc = "done",
                     !.result = CheckConfig(checked.config, checked.action, checked.details)]
    /\ UNCHANGED ckRest

CheckNext == CheckCall

(***************************************************************************)
(* permissions/config_loader.py: load, reload and get under the loader's   *)
(* lock, with the policy file edited on disk at any moment.                *)
(***************************************************************************)

ReloadIdle ==
    [ lock |-> "free", pc |-> "idle", before |-> EmptyConfig, raw |-> [state |-> "none", doc |-> 0],
      outcome |-> "none", after |-> EmptyConfig, seen |-> EmptyConfig, gets |-> 0 ]

rlRest ==
    <<initialized, lastOp, thVars, cfVars, tgVars, dmVars, rtVars, auVars, mmVars, cxVars,
      built, checked, lifecycle, timed, device, nvVars>>

\* A reload that empties the cache when the file fails validation.
ReloadedConfigClearing(cfg, raw) ==
    IF raw.state = "ok" THEN [loaded |-> TRUE, doc |-> raw.doc] ELSE EmptyConfig

\* self._config = self._validate(raw): the cache after the statement, which
\* assigns only when _validate returned.
ReloadedConfig(cfg, raw) ==
    IF raw.state = "ok" THEN [loaded |-> TRUE, doc |-> raw.doc] ELSE cfg

\* load(path): FileNotFoundError before the lock when there is no file; under
\* the lock _path is set, the file read and validated, the cache assigned.
LoaderLoad ==
    /\ reloader.lock = "free"
    /\ IF policyFile.state = "missing"
         THEN UNCHANGED <<loaderPath, loaderConfig>>
         ELSE /\ loaderPath' = TRUE
              /\ loaderConfig' = ReloadedConfig(loaderConfig, policyFile)
    /\ UNCHANGED <<policyFile, reloader, rlRest>>

\* reload(): the lock is taken; RuntimeError when load was never called.
ReloadBegin ==
    /\ reloader.pc = "idle" /\ reloader.lock = "free"
    /\ IF ~loaderPath
         THEN reloader' = [reloader EXCEPT !.pc = "done", !.outcome = "RuntimeError",
                                           !.before = loaderConfig, !.after = loaderConfig]
         ELSE reloader' = [reloader EXCEPT !.pc = "read", !.lock = "reload",
                                           !.before = loaderConfig]
    /\ UNCHANGED <<policyFile, loaderConfig, loaderPath, rlRest>>

\* raw = self._read_yaml(self._path): open raises when the file is gone.
ReloadRead ==
    /\ reloader.pc = "read"
    /\ IF policyFile.state = "missing"
         THEN reloader' = [reloader EXCEPT !.pc = "done", !.lock = "free",
                                           !.outcome = "failed", !.after = loaderConfig]
         ELSE reloader' = [reloader EXCEPT !.pc = "validate", !.raw = policyFile]
    /\ UNCHANGED <<policyFile, loaderConfig, loaderPath, rlRest>>

\* self._config = self._validate(raw); the lock is released on the way out.
ReloadValidate ==
    /\ reloader.pc = "validate"
    /\ loaderConfig' = ReloadedConfig(loaderConfig, reloader.raw)
    /\ reloader' = [reloader EXCEPT
                      !.pc = "done", !.lock = "free",
                      !.outcome = IF reloader.raw.state = "ok" THEN "ok" ELSE "failed",
                      !.after = ReloadedConfig(loaderConfig, reloader.raw)]
    /\ UNCHANGED <<policyFile, loaderPath, rlRest>>

\* The caller of reload has its result or its exception.
ReloadReturn ==
    /\ reloader.pc = "done"
    /\ reloader' = [reloader EXCEPT !.pc = "idle"]
    /\ UNCHANGED <<policyFile, loaderConfig, loaderPath, rlRest>>

\* get(section) from another thread: it waits for the lock and copies the
\* section out of the cache it finds.
LoaderGet ==
    /\ reloader.lock = "free"
    /\ reloader' = [reloader EXCEPT !.seen = loaderConfig, !.gets = 1]
    /\ UNCHANGED <<policyFile, loaderConfig, loaderPath, rlRest>>

ReloadNext ==
    \/ \E f \in FileStates : EditPolicyFile(f)
    \/ LoaderLoad
    \/ ReloadBegin
    \/ ReloadRead
    \/ ReloadValidate
    \/ ReloadReturn
    \/ LoaderGet

(***************************************************************************)
(* core/context.py: build, and memory.get_history behind it.               *)
(***************************************************************************)

\* The most Message rows a user has in the model.
MaxStored == 22

\* memory.get_history(user_id, limit=20) in build.
HistoryLimit == 20

\* How the roles and contents of a user's rows run: user and assistant turns
\* only, every third row of role system, every third row with empty content.
StoredPatterns == { "chat", "system_rows", "empty_rows" }

\* The i-th Message row a user saved: its timestamp, its role, whether it has
\* content.
StoredRow(i, pattern) ==
    [ ts |-> i,
      role |-> IF pattern = "system_rows" /\ i % 3 = 0 THEN "system"
               ELSE IF i % 2 = 1 THEN "user" ELSE "assistant",
      content |-> ~(pattern = "empty_rows" /\ i % 3 = 0) ]

StoredRows(n, pattern) == { StoredRow(i, pattern) : i \in 1..n }

\* order_by(Message.timestamp.desc()): the rows, newest first.
NewestFirst(rows) ==
    [ k \in 1..Cardinality(rows) |->
        CHOOSE r \in rows : Cardinality({ q \in rows : q.ts > r.ts }) = k - 1 ]

Reversed(seq) == [ k \in 1..Len(seq) |-> seq[Len(seq) + 1 - k] ]

\* A get_history that returns the selected rows as the query gives them.
get_history_unreversed(rows, limit) ==
    LET desc == NewestFirst(rows)
        taken == [ k \in 1..(IF Len(desc) < limit THEN Len(desc) ELSE limit) |-> desc[k] ]
    IN  taken

\* get_history(user_id, limit): the newest `limit` rows, oldest first.
get_history(rows, limit) ==
    LET desc == NewestFirst(rows)
        taken == [ k \in 1..(IF Len(desc) < limit THEN Len(desc) ELSE limit) |-> desc[k] ]
    IN  Reversed(taken)

BuiltMessage(role, kind, ts) == [role |-> role, kind |-> kind, ts |-> ts]

\* The RAG block of build: one system message when build_context returned
\* text, nothing when it returned "" or raised.
RagBlock(rag) ==
    IF rag = "text" THEN <<BuiltMessage("system", "rag", 0)>> ELSE <<>>

\* The relevant-memory block: one system message when a result has content
\* and a score above 0.5, nothing when there is none or the search raised.
RelevantBlock(relevant) ==
    IF relevant = "hit" THEN <<BuiltMessage("system", "relevant", 0)>> ELSE <<>>

\* The history block: the user and assistant rows with content of
\* get_history(user_id, limit=20), nothing when get_history raised.
HistoryBlock(history, rows) ==
    IF history = "raises" THEN <<>>
    ELSE LET kept == SelectSeq(get_history(rows, HistoryLimit),
                               LAMBDA m : m.role \in {"user", "assistant"} /\ m.content)
         IN  [ k \in 1..Len(kept) |-> BuiltMessage(kept[k].role, "history", kept[k].ts) ]

\* build(user_id, prompt)
build(rag, relevant, history, rows) ==
    <<BuiltMessage("system", "persona", 0)>>
      \o RagBlock(rag) \o RelevantBlock(relevant) \o HistoryBlock(history, rows)
      \o <<BuiltMessage("user", "prompt", 0)>>

BuildIdle ==
    [ pc |-> "idle", rag |-> "none", relevant |-> "none", history |-> "ok",
      stored |-> 0, pattern |-> "chat", result |-> <<>> ]

\* The calls: what each subsystem gives, and the rows the user has.
BuildInit ==
    \E rag \in {"none", "text", "raises"}, relevant \in {"none", "low_score", "hit", "raises"},
       history \in {"ok", "raises"}, stored \in 0..MaxStored, pattern \in StoredPatterns :
        built = [ BuildIdle EXCEPT !.rag = rag, !.relevant = relevant, !.history = history,
                                   !.stored = stored, !.pattern = pattern ]

Build ==
    /\ built.pc = "idle"
    /\ built' = [built EXCEPT
                   !.pc = "done",
                   !.result = build(built.rag, built.relevant, built.history,
                                    StoredRows(built.stored, built.pattern))]
    /\ UNCHANGED btRest

BuildNext == Build

(***************************************************************************)
(* background/process.py: start, stop and the loop thread.                 *)
(***************************************************************************)

\* The most loop threads alive at once, and the most cycles they run.
MaxLoops == 2

MaxRuns == 3

LoopIds == 1..MaxLoops

LifecycleIdle ==
    [ running |-> FALSE, pc |-> [t \in LoopIds |-> "none"], cycles |-> 0, stops |-> 0 ]

\* A loop that goes on whatever the flag says.
LoopContinuesRegardless(running) == TRUE

\* while self._running: the test at the head of the loop, reached when the
\* thread starts and after every sleep; the cycle begins when it passes.
LoopContinues(running) == running

\* start(): nothing when already running; otherwise the flag is set and a new
\* loop thread started.
DaemonStart ==
    /\ IF lifecycle.running
         THEN UNCHANGED lifecycle
         ELSE \E t \in LoopIds :
                /\ lifecycle.pc[t] \in {"none", "dead"}
                /\ lifecycle' = [lifecycle EXCEPT !.running = TRUE, !.pc[t] = "head"]
    /\ UNCHANGED lcRest

\* stop(): nothing when not running; otherwise the flag is cleared and the
\* thread joined for at most five seconds.
DaemonStop ==
    /\ IF ~lifecycle.running
         THEN UNCHANGED lifecycle
         ELSE lifecycle' = [lifecycle EXCEPT !.running = FALSE, !.stops = 1]
    /\ UNCHANGED lcRest

\* _loop at the while test: the next cycle begins, or the thread ends.
LoopHead(t) ==
    /\ lifecycle.pc[t] = "head"
    /\ IF LoopContinues(lifecycle.running)
         THEN /\ lifecycle.cycles < MaxRuns
              /\ lifecycle' = [lifecycle EXCEPT !.pc[t] = "cycle",
                                                !.cycles = lifecycle.cycles + 1]
         ELSE lifecycle' = [lifecycle EXCEPT !.pc[t] = "dead"]
    /\ UNCHANGED lcRest

\* run_cycle returned, or raised into the except clause of _loop.
LoopCycleEnd(t) ==
    /\ lifecycle.pc[t] = "cycle"
    /\ lifecycle' = [lifecycle EXCEPT !.pc[t] = "sleep"]
    /\ UNCHANGED lcRest

\* time.sleep(self.interval_seconds) returned.
LoopWake(t) ==
    /\ lifecycle.pc[t] = "sleep"
    /\ lifecycle' = [lifecycle EXCEPT !.pc[t] = "head"]
    /\ UNCHANGED lcRest

LoopStep(t) == LoopHead(t) \/ LoopCycleEnd(t) \/ LoopWake(t)

LifecycleNext ==
    \/ DaemonStart
    \/ DaemonStop
    \/ \E t \in LoopIds : LoopHead(t)
    \/ \E t \in LoopIds : LoopCycleEnd(t)
    \/ \E t \in LoopIds : LoopWake(t)

(***************************************************************************)
(* engines/auth/oauth_gemini.py, oauth_openai.py: the device-flow login    *)
(* and its polling loop.                                                   *)
(***************************************************************************)

\* oauth_gemini.DEVICE_TIMEOUT_SECONDS and oauth_openai.DEFAULT_DEVICE_TIMEOUT_SECONDS
DEVICE_TIMEOUT_SECONDS == [gemini |-> 5 * 60, openai |-> 15 * 60]

\* The "interval" values a device-code response carries, in seconds.
AdvertisedIntervals == { 0, 5, 27, 60 }

\* What one poll of the token endpoint ends in. Google answers with an error
\* code, OpenAI with a status: 403 and 404 while the user has not approved,
\* 429 to slow the client down.
PollResponses(provider) ==
    IF provider = "gemini"
      THEN { "transport_error", "ok", "invalid_json", "authorization_pending",
             "slow_down", "access_denied", "other_error" }
      ELSE { "transport_error", "ok", "invalid_json", "status_403_404",
             "status_429", "other_status" }

DeviceIdle ==
    [ provider |-> "none", pc |-> "idle", interval |-> 0, elapsed |-> 0, last |-> "none",
      outcome |-> "none", persisted |-> FALSE ]

\* login() up to the polling loop: interval = max(1, interval_seconds).
DeviceLogin(provider, advertised) ==
    /\ device.pc = "idle"
    /\ device' = [DeviceIdle EXCEPT
                    !.provider = provider, !.pc = "polling",
                    !.interval = IF advertised < 1 THEN 1 ELSE advertised]
    /\ UNCHANGED dvRest

\* interval = min(interval + 2, 30)
SlowedDown(interval) == IF interval + 2 < 30 THEN interval + 2 ELSE 30

\* One turn of the polling loop: the deadline test, the request, and the
\* sleep or the return its answer leads to.
DevicePoll(response) ==
    /\ device.pc = "polling"
    /\ response \in PollResponses(device.provider)
    /\ IF device.elapsed >= DEVICE_TIMEOUT_SECONDS[device.provider]
         THEN device' = [device EXCEPT !.pc = "done", !.outcome = "timeout", !.last = "none"]
         ELSE CASE response \in {"transport_error", "authorization_pending", "status_403_404"} ->
                     device' = [device EXCEPT !.elapsed = @ + device.interval,
                                              !.last = response]
                [] response \in {"slow_down", "status_429"} ->
                     device' = [device EXCEPT !.interval = SlowedDown(@),
                                              !.elapsed = @ + SlowedDown(device.interval),
                                              !.last = response]
                [] response = "ok" ->
                     device' = [device EXCEPT !.pc = "exchange", !.last = response]
                [] response = "access_denied" ->
                     device' = [device EXCEPT !.pc = "done", !.outcome = "access_denied",
                                              !.last = response]
                [] OTHER ->
                     device' = [device EXCEPT !.pc = "done", !.outcome = "error",
                                              !.last = response]
    /\ UNCHANGED dvRest

\* login() after the loop returned a payload: the authorization code is
\* exchanged (OpenAI), the tokens are looked for, and the token file written
\* when both the access and the refresh token are there.
DeviceExchange(complete) ==
    /\ device.pc = "exchange"
    /\ device' = [device EXCEPT !.pc = "done",
                                !.outcome = IF complete THEN "approved" ELSE "error",
                                !.persisted = complete]
    /\ UNCHANGED dvRest

DeviceStep ==
    \/ \E response \in PollResponses(device.provider) : DevicePoll(response)
    \/ \E complete \in BOOLEAN : DeviceExchange(complete)

DeviceNext ==
    \/ \E provider \in {"gemini", "openai"}, advertised \in AdvertisedIntervals :
          DeviceLogin(provider, advertised)
    \/ \E response \in PollResponses("gemini") \cup PollResponses("openai") : DevicePoll(response)
    \/ \E complete \in BOOLEAN : DeviceExchange(complete)

(***************************************************************************)
(* main.py chat_loop, engines/base.py format_messages and                  *)
(* engines/claude_engine.py generate: one user turn                        *)
(***************************************************************************)
MaxEarlier == 3

\* format_messages(prompt, context): the messages of the context that have one
\* of the three roles and content, then the prompt as a user message. Every
\* message build returns has content.
format_messages(context) ==
    SelectSeq(context, LAMBDA m : m.role \in {"system", "user", "assistant"})
      \o <<BuiltMessage("user", "prompt", 0)>>

\* ClaudeEngine.generate: system_content is assigned once per system message of
\* the formatted list, so the last one stays; the others go to the chat list.
ClaudeRequest(formatted) ==
    LET systems == SelectSeq(formatted, LAMBDA m : m.role = "system")
    IN  [ system |-> IF systems = <<>> THEN <<>> ELSE <<systems[Len(systems)]>>,
          messages |-> SelectSeq(formatted, LAMBDA m : m.role # "system") ]

NoRequest == [ system |-> <<>>, messages |-> <<>> ]

ChatIdle ==
    [ pc |-> "idle", rag |-> "none", relevant |-> "none", history |-> "ok",
      stored |-> 0, pattern |-> "chat", row |-> 0, messages |-> <<>>, request |-> NoRequest ]

\* The turns: what each subsystem gives, and the rows the user had before.
ChatInit ==
    \E rag \in {"none", "text", "raises"}, relevant \in {"none", "low_score", "hit", "raises"},
       history \in {"ok", "raises"}, stored \in 0..MaxEarlier, pattern \in StoredPatterns :
        turn = [ ChatIdle EXCEPT !.rag = rag, !.relevant = relevant, !.history = history,
                                 !.stored = stored, !.pattern = pattern ]

\* The Message rows of the user once save_message of the input has committed.
ChatRows ==
    StoredRows(turn.stored, turn.pattern)
      \cup (IF turn.row = 0 THEN {} ELSE {[ts |-> turn.row, role |-> "user", content |-> TRUE]})

\* memory.save_message(user_id, "user", user_input): the row is committed, or
\* the failure is raised into the except clause of the turn.
ChatSave(commit_ok) ==
    /\ turn.pc = "idle"
    /\ turn' = IF commit_ok
                 THEN [turn EXCEPT !.pc = "saved", !.row = turn.stored + 1]
                 ELSE [turn EXCEPT !.pc = "failed"]
    /\ UNCHANGED chRest

\* messages = context_module.build(user_id, user_input, task_type="reasoning")
ChatBuild ==
    /\ turn.pc = "saved"
    /\ turn' = [turn EXCEPT !.pc = "built",
                            !.messages = build(turn.rag, turn.relevant, turn.history, ChatRows)]
    /\ UNCHANGED chRest

\* response = engine.generate(user_input, messages), on the Anthropic engine.
ChatGenerate ==
    /\ turn.pc = "built"
    /\ turn' = [turn EXCEPT !.pc = "sent",
                            !.request = ClaudeRequest(format_messages(turn.messages))]
    /\ UNCHANGED chRest

ChatNext ==
    \/ \E commit_ok \in BOOLEAN : ChatSave(commit_ok)
    \/ ChatBuild
    \/ ChatGenerate

(***************************************************************************)
(* background/process.py _loop, run_cycle, _process_trigger and            *)
(* background/triggers.py get_fired_triggers: what an exception ends       *)
(***************************************************************************)
MaxWorkerCycles == 2

\* What evaluate(trigger, context) does for one trigger, and what the body of
\* _process_trigger does for one fired trigger.
EvalOutcomes == { "false", "true", "raises" }
ProcessOutcomes == { "sent", "blocked", "raises" }

\* How run_cycle goes up to the loop over the triggers: quiet hours, an
\* exception of _is_quiet_hours, _build_context or TriggerEngine(), or neither.
CycleModes == { "quiet", "escapes", "normal" }

\* A get_fired_triggers whose loop has no try around evaluate.
GetFiredStepUnguarded(fired, id, outcome) ==
    [ fired |-> IF outcome = "true" THEN Append(fired, id) ELSE fired,
      escapes |-> outcome = "raises" ]

\* One pass of the loop of get_fired_triggers: the trigger is appended when
\* evaluate is true, and an exception of evaluate is logged.
GetFiredStep(fired, id, outcome) ==
    [ fired |-> IF outcome = "true" THEN Append(fired, id) ELSE fired,
      escapes |-> FALSE ]

\* _process_trigger: its whole body is inside try / except Exception.
ProcessEscapes(outcome) == FALSE

\* _loop: `while self._running`
WorkerContinues(running) == running

WorkerIdle ==
    [ running |-> FALSE, pc |-> "none", cycles |-> 0, entered |-> FALSE, escaped |-> FALSE,
      recovered |-> FALSE, evaluated |-> <<>>, fired |-> <<>>, processed |-> <<>>,
      followed |-> FALSE ]

\* start() has set _running and started the thread.
WorkerInit == worker = [WorkerIdle EXCEPT !.running = TRUE, !.pc = "head"]

\* run_cycle is entered: _cycle_count += 1, then the quiet-hours test and the
\* context.
WorkerBegin(mode) ==
    /\ worker.pc = "head" /\ WorkerContinues(worker.running)
    /\ worker.cycles < MaxWorkerCycles
    /\ worker' = [worker EXCEPT
                    !.pc = CASE mode = "quiet" -> "follow"
                             [] mode = "escapes" -> "sleep"
                             [] OTHER -> "eval",
                    !.cycles = @ + 1,
                    !.entered = (mode = "normal"),
                    !.escaped = (mode = "escapes"),
                    !.recovered = worker.escaped,
                    !.evaluated = <<>>, !.fired = <<>>, !.processed = <<>>,
                    !.followed = FALSE]
    /\ UNCHANGED wkRest

\* The loop ends: _running was false at the test.
WorkerExit ==
    /\ worker.pc = "head" /\ ~WorkerContinues(worker.running)
    /\ worker' = [worker EXCEPT !.pc = "exited"]
    /\ UNCHANGED wkRest

\* get_fired_triggers, one trigger of the list.
WorkerEvaluate(outcome) ==
    /\ worker.pc = "eval"
    /\ LET id == TriggerOrder[Len(worker.evaluated) + 1]
           step == GetFiredStep(worker.fired, id, outcome)
           last == Len(worker.evaluated) + 1 = Len(TriggerOrder)
       IN  worker' = [worker EXCEPT
                        !.evaluated = Append(@, [id |-> id, outcome |-> outcome]),
                        !.fired = step.fired,
                        !.escaped = step.escapes,
                        !.pc = IF step.escapes THEN "sleep"
                               ELSE IF last THEN "process" ELSE "eval"]
    /\ UNCHANGED wkRest

\* for trigger in fired_triggers: self._process_trigger(trigger, context)
WorkerProcess(outcome) ==
    /\ worker.pc = "process"
    /\ Len(worker.processed) < Len(worker.fired)
    /\ LET id == worker.fired[Len(worker.processed) + 1]
       IN  worker' = [worker EXCEPT
                        !.processed = Append(@, [id |-> id, outcome |-> outcome]),
                        !.escaped = ProcessEscapes(outcome),
                        !.pc = IF ProcessEscapes(outcome) THEN "sleep" ELSE "process"]
    /\ UNCHANGED wkRest

\* self._check_follow_ups(), whose body is inside try / except Exception, and
\* the return of run_cycle.
WorkerFollowUps ==
    /\ \/ worker.pc = "follow"
       \/ worker.pc = "process" /\ Len(worker.processed) = Len(worker.fired)
    /\ worker' = [worker EXCEPT !.pc = "sleep", !.followed = TRUE]
    /\ UNCHANGED wkRest

\* time.sleep(self.interval_seconds) returns; an exception of run_cycle was
\* logged by the except clause of the loop before the sleep.
WorkerWake ==
    /\ worker.pc = "sleep"
    /\ worker' = [worker EXCEPT !.pc = "head"]
    /\ UNCHANGED wkRest

\* stop(): self._running = False
WorkerStop ==
    /\ worker.running
    /\ worker.pc \notin {"none", "exited"}
    /\ worker' = [worker EXCEPT !.running = FALSE]
    /\ UNCHANGED wkRest

\* The steps of the loop thread.
WorkerStep ==
    \/ \E mode \in CycleModes : WorkerBegin(mode)
    \/ WorkerExit
    \/ \E outcome \in EvalOutcomes : WorkerEvaluate(outcome)
    \/ \E outcome \in ProcessOutcomes : WorkerProcess(outcome)
    \/ WorkerFollowUps
    \/ WorkerWake

WorkerNext == WorkerStep \/ WorkerStop

(***************************************************************************)
(* background/triggers.py: several TriggerEngine instances on one file     *)
(***************************************************************************)
MaxRegistryOps == 4

EngineIds == { 1, 2 }

\* The file _create_default_triggers writes: DEFAULT_TRIGGERS.
DefaultFile ==
    [ ids |-> {"morning_checkin", "inactivity_reminder"},
      last_fired |-> [id \in TriggerIds |-> Never] ]

\* The triggers the callers add, mark and remove.
AddedIds == { "lunch_slot", "due_keyword" }
MarkedIds == { "morning_checkin" }
RemovedIds == { "inactivity_reminder", "lunch_slot" }

NoRegistryOp == [ op |-> "none", engine |-> 0, id |-> "none", saved |-> FALSE ]

\* persisted: the triggers an add_trigger wrote to the file and no
\* remove_trigger took out; before[id]: the instances that had loaded the file
\* when id was added, other than the one that added it.
RegistryIdle ==
    [ file |-> DefaultFile, engines |-> [e \in EngineIds |-> NoEngine],
      persisted |-> {}, before |-> [id \in TriggerIds |-> {}], ops |-> 0,
      last |-> NoRegistryOp ]

\* TriggerEngine(): __init__ calls _load_triggers.
RegistryLoad(e, load_ok) ==
    /\ ~registry.engines[e].loaded
    /\ registry' = [registry EXCEPT !.engines[e] = _load_triggers(registry.file, load_ok)]
    /\ UNCHANGED rgRest

\* add_trigger(trigger): append to the instance's list, then _save_triggers.
add_trigger(e, id, save_ok) ==
    /\ registry.engines[e].loaded /\ id \notin registry.engines[e].ids
    /\ registry.ops < MaxRegistryOps
    /\ LET eng == [registry.engines[e] EXCEPT !.ids = @ \cup {id}, !.last_fired[id] = Never]
       IN  registry' = [registry EXCEPT
                          !.engines[e] = eng,
                          !.file = _save_triggers(registry.file, eng, save_ok),
                          !.persisted = IF save_ok THEN @ \cup {id} ELSE @,
                          !.before[id] = IF save_ok
                                           THEN { x \in EngineIds \ {e} : registry.engines[x].loaded }
                                           ELSE @,
                          !.ops = @ + 1,
                          !.last = [op |-> "add_trigger", engine |-> e, id |-> id,
                                    saved |-> save_ok]]
    /\ UNCHANGED rgRest

\* mark_fired(trigger_id) on an instance: last_fired of its own object, then
\* _save_triggers of its own list.
RegistryMark(e, id, save_ok) ==
    /\ registry.engines[e].loaded
    /\ registry.ops < MaxRegistryOps
    /\ LET eng == MarkedEngine(registry.engines[e], id, Now)
       IN  registry' = [registry EXCEPT
                          !.engines[e] = eng,
                          !.file = _save_triggers(registry.file, eng, save_ok),
                          !.ops = @ + 1,
                          !.last = [op |-> "mark_fired", engine |-> e, id |-> id,
                                    saved |-> save_ok]]
    /\ UNCHANGED rgRest

\* remove_trigger(trigger_id) that finds the trigger in the instance's list:
\* delete it, then _save_triggers.
remove_trigger(e, id, save_ok) ==
    /\ registry.engines[e].loaded /\ id \in registry.engines[e].ids
    /\ registry.ops < MaxRegistryOps
    /\ LET eng == [registry.engines[e] EXCEPT !.ids = @ \ {id}]
       IN  registry' = [registry EXCEPT
                          !.engines[e] = eng,
                          !.file = _save_triggers(registry.file, eng, save_ok),
                          !.persisted = IF save_ok THEN @ \ {id} ELSE @,
                          !.ops = @ + 1,
                          !.last = [op |-> "remove_trigger", engine |-> e, id |-> id,
                                    saved |-> save_ok]]
    /\ UNCHANGED rgRest

RegistryNext ==
    \/ \E e \in EngineIds, load_ok \in BOOLEAN : RegistryLoad(e, load_ok)
    \/ \E e \in EngineIds, id \in AddedIds, save_ok \in BOOLEAN : add_trigger(e, id, save_ok)
    \/ \E e \in EngineIds, id \in MarkedIds, save_ok \in BOOLEAN : RegistryMark(e, id, save_ok)
    \/ \E e \in EngineIds, id \in RemovedIds, save_ok \in BOOLEAN : remove_trigger(e, id, save_ok)

(***************************************************************************)
(* Specifications: one per component, over the same variables              *)
(***************************************************************************)
\* The later components at rest.
SixIdle ==
    /\ built = BuildIdle /\ reloader = ReloadIdle /\ checked = CheckIdle
    /\ lifecycle = LifecycleIdle /\ timed = TimedIdle /\ device = DeviceIdle

NewIdle == turn = ChatIdle /\ worker = WorkerIdle /\ registry = RegistryIdle

LateIdle == SixIdle /\ NewIdle

ExtIdle == AuthIdle /\ MemoryIdle /\ ContextIdle /\ LateIdle

InitSandbox == SandboxInit /\ ThreadsInit /\ ConfirmInit /\ TriggersIdle /\ DaemonIdle /\ RouteIdle /\ ExtIdle

SpecSandbox == InitSandbox /\ [][SandboxNext]_vars

InitThreads == SandboxIdle /\ ThreadsInit /\ ConfirmInit /\ TriggersIdle /\ DaemonIdle /\ RouteIdle /\ ExtIdle

SpecThreads == InitThreads /\ [][ThreadsNext]_vars

InitConfirm == SandboxIdle /\ ThreadsInit /\ ConfirmInit /\ TriggersIdle /\ DaemonIdle /\ RouteIdle /\ ExtIdle

SpecConfirm == InitConfirm /\ [][ConfirmNext]_vars

InitTriggers == SandboxIdle /\ ThreadsInit /\ ConfirmInit /\ TriggersInit /\ DaemonIdle /\ RouteIdle /\ ExtIdle

SpecTriggers == InitTriggers /\ [][TriggersNext]_vars

InitDaemon == DaemonInit /\ ThreadsInit /\ ConfirmInit /\ TriggersInit /\ RouteIdle /\ ExtIdle

SpecDaemon == InitDaemon /\ [][DaemonNext]_vars

InitRoute == SandboxIdle /\ ThreadsInit /\ ConfirmInit /\ TriggersIdle /\ DaemonIdle /\ RouteIdle /\ ExtIdle

SpecRoute == InitRoute /\ [][RouteNext]_vars

CoreIdle ==
    SandboxIdle /\ ThreadsInit /\ ConfirmInit /\ TriggersIdle /\ DaemonIdle /\ RouteIdle

InitAuth == CoreIdle /\ AuthIdle /\ MemoryIdle /\ ContextIdle /\ LateIdle

SpecAuth == InitAuth /\ [][AuthNext]_vars

InitEngines == CoreIdle /\ EnginesInit /\ MemoryIdle /\ ContextIdle /\ LateIdle

SpecEngines == InitEngines /\ [][EnginesNext]_vars

InitMemory == CoreIdle /\ AuthIdle /\ MemoryIdle /\ ContextIdle /\ LateIdle

SpecMemory == InitMemory /\ [][MemoryNext]_vars

InitCompress == CoreIdle /\ AuthIdle /\ MemoryIdle /\ ContextIdle /\ LateIdle

SpecCompress == InitCompress /\ [][CompressNext]_vars

InitContext == CoreIdle /\ AuthIdle /\ MemoryIdle /\ ContextInit /\ LateIdle

SpecContext == InitContext /\ [][ContextNext]_vars

InitSearch == CoreIdle /\ AuthIdle /\ MemoryIdle /\ ContextIdle /\ LateIdle

SpecSearch == InitSearch /\ [][SearchNext]_vars

InitRag == CoreIdle /\ AuthIdle /\ MemoryIdle /\ ContextIdle /\ LateIdle

SpecRag == InitRag /\ [][RagNext]_vars

EarlyIdle == CoreIdle /\ AuthIdle /\ MemoryIdle /\ ContextIdle

InitTimed ==
    /\ EarlyIdle /\ TimedInit
    /\ built = BuildIdle /\ reloader = ReloadIdle /\ checked = CheckIdle
    /\ lifecycle = LifecycleIdle /\ device = DeviceIdle
    /\ NewIdle

SpecTimed == InitTimed /\ [][TimedNext]_vars

InitChat == EarlyIdle /\ SixIdle /\ ChatInit /\ worker = WorkerIdle /\ registry = RegistryIdle

SpecChat == InitChat /\ [][ChatNext]_vars

InitRegistry == EarlyIdle /\ SixIdle /\ NewIdle

SpecRegistry == InitRegistry /\ [][RegistryNext]_vars

InitWorker == EarlyIdle /\ SixIdle /\ turn = ChatIdle /\ WorkerInit /\ registry = RegistryIdle

\* The loop thread keeps running: sleep returns after the interval, and each
\* step of a cycle ends, by returning or by raising.
SpecWorker == InitWorker /\ [][WorkerNext]_vars /\ WF_vars(WorkerStep)

InitDevice == EarlyIdle /\ LateIdle

\* The login call keeps running: each request ends (it has a timeout), each
\* sleep returns.
SpecDevice == InitDevice /\ [][DeviceNext]_vars /\ WF_vars(DeviceStep)

InitLifecycle == EarlyIdle /\ LateIdle

\* A loop thread that can take a step takes it: the scheduler runs it, sleep
\* returns after the interval and run_cycle ends, by returning or by raising
\* into the loop's except clause.
SpecLifecycle ==
    InitLifecycle /\ [][LifecycleNext]_vars /\ \A t \in LoopIds : WF_vars(LoopStep(t))

InitBuild ==
    /\ EarlyIdle /\ BuildInit
    /\ reloader = ReloadIdle /\ checked = CheckIdle /\ lifecycle = LifecycleIdle
    /\ timed = TimedIdle /\ device = DeviceIdle
    /\ NewIdle

SpecBuild == InitBuild /\ [][BuildNext]_vars

InitReload ==
    /\ SandboxInit /\ ThreadsInit /\ ConfirmInit /\ TriggersIdle /\ DaemonIdle /\ RouteIdle
    /\ ExtIdle

SpecReload == InitReload /\ [][ReloadNext]_vars

InitCheck ==
    /\ EarlyIdle /\ CheckInit
    /\ built = BuildIdle /\ reloader = ReloadIdle /\ lifecycle = LifecycleIdle
    /\ timed = TimedIdle /\ device = DeviceIdle
    /\ NewIdle

SpecCheck == InitCheck /\ [][CheckNext]_vars

(***************************************************************************)
(* Properties                                                              *)
(***************************************************************************)
GatedOps == FileOps \cup CalendarOps \cup {"copy_file", "run", "run_background"}

\* C1 (as claimed): a gated file or terminal operation performs its effect only if
\* sandbox.check returned allowed=true and, when the decision requires
\* confirmation, request_confirm returned true; a denial or a declined
\* confirmation makes the operation return its denial value without the effect.
C1_EffectOnlyWhenAllowedAndConfirmed ==
    lastOp.op \in (GatedOps \ CalendarOps) =>
        /\ lastOp.performed =>
              /\ lastOp.check = "allowed"
              /\ lastOp.requires_confirm => lastOp.confirm = "yes"
        /\ (lastOp.check = "denied" \/ lastOp.confirm = "no") =>
              (lastOp.denied /\ ~lastOp.performed)

\* C2 (as claimed): when sandbox.check raises, the guarded file, terminal or
\* calendar operation is denied and its effect is not performed.
C2_CheckExceptionIsDenial ==
    (lastOp.op \in GatedOps /\ lastOp.check = "raised") =>
        (lastOp.denied /\ ~lastOp.performed)

\* C9 (as claimed): check knows every action of the typed set and finds its one
\* policy section, and with the proactive section enabled
\* check("proactive.message", d) returns allowed=true.
C9_TypedActionsKnownAndProactiveAllowed ==
    (lastOp.op = "check" /\ lastOp.action \in TypedActions /\ lastOp.check # "raised") =>
        /\ lastOp.reason \notin { "Unknown action", "No config section mapped for action",
                                  "No specific handler for section" }
        /\ (lastOp.action = "proactive.message"
              /\ loaderConfig.loaded /\ PolicyDocs[loaderConfig.doc]["proactive"].enabled)
              => lastOp.check = "allowed"

\* C3 (as claimed): request_confirm returns false whenever the message cannot be
\* sent (no credentials, transport failure), when no reply arrives before the
\* timeout, and when the reply is anything other than "yes"; it returns true
\* only when a "yes" from the configured recipient is observed before the
\* deadline.
C3_TrueOnlyOnYesBeforeDeadline ==
    confirm.pc = "done" =>
        /\ confirm.why \in {"no_token", "send_failed", "timeout"} => confirm.result = "false"
        /\ confirm.result = "true" =>
              /\ confirm.why = "reply"
              /\ confirm.reply.chat = DEFAULT_USER_ID
              /\ ReplyText(confirm.reply) = <<"y", "e", "s">>
              /\ confirm.observed_at < confirm.deadline
        /\ (confirm.why = "reply" /\ ReplyText(confirm.reply) # <<"y", "e", "s">>) =>
              confirm.result = "false"

\* The machine of the data model: open -> waiting, resolved; waiting -> open, resolved.
AllowedTransitions ==
    { <<"open", "waiting">>, <<"open", "resolved">>,
      <<"waiting", "open">>, <<"waiting", "resolved">> }

\* C4 (as claimed): update_state applies only the transitions open->waiting,
\* open->resolved, waiting->open and waiting->resolved; a resolved thread never
\* changes state again, and an unknown state name is rejected with the thread
\* unchanged.
C4_OnlyMachineTransitions ==
    /\ lastUpdate.from # lastUpdate.to =>
          <<lastUpdate.from, lastUpdate.to>> \in AllowedTransitions
    /\ lastUpdate.from = "resolved" => lastUpdate.to = "resolved"
    /\ LowerName(lastUpdate.requested) \notin (state_map \cup {"none"}) =>
          (lastUpdate.raised /\ lastUpdate.to = lastUpdate.from)

\* C5 (as claimed): evaluate returns the same result when repeated on the same
\* inputs, and for every trigger type an evaluate that immediately follows
\* mark_fired of that trigger, with the same context on the same engine, returns
\* false.
C5_EvaluateIdempotentAndCooldown ==
    lastEval.id # "none" =>
        /\ lastEval.again = lastEval.result
        /\ lastEval.after_mark => ~lastEval.result

\* Every trigger the daemon processed in its last cycle.
Processed == { daemon.cycle.processed[i] : i \in 1..Len(daemon.cycle.processed) }

C8_PolicyQuietHoursRespected ==
    (daemon.pc = "idle" /\ daemon.cycle.count > 0) =>
        IF _is_quiet_hours(PolicyDocs[policyFile.doc]["proactive"].quiet_hours,
                           HHMM(daemon.cycle.at))
          THEN /\ ~daemon.cycle.evaluated
               /\ daemon.cycle.fired = <<>>
               /\ \A p \in Processed : ~p.opened /\ ~p.success
               /\ daemon.cycle.follow_ups
          ELSE daemon.cycle.evaluated

C11_RosterFallback ==
    lastRoute.task # "none" =>
        LET available == get_available_engines(providerEnv)
        IN  /\ available # {} => lastRoute.result \in available
            /\ lastRoute.result = "RuntimeError" => available = {}

\* C12 (as claimed): generate of every engine never raises; any failure of the
\* call, a missing or unusable credential included, comes back as a string that
\* starts with "[Error]", and stream yields that error string and then stops.
C12_EngineFailureIsErrorString ==
    lastCall.engine # "none" =>
        /\ lastCall.ending # "raised"
        /\ lastCall.failed => lastCall.ending = "error"

\* C13 (as claimed): for an OAuth provider with a stored record, get_token
\* returns "Bearer <access>" of the stored token when its expiry is more than
\* one hour ahead; otherwise it refreshes with the stored refresh_token, on
\* success persists the new access token and expiry and returns the new Bearer
\* value, and on failure returns null; the API-key variable is used only when no
\* record exists.
C13_StoredRecordDecidesToken ==
    (lastToken.provider \in OAuthProviders /\ lastToken.before.stored) =>
        LET b == lastToken.before
            a == lastToken.after
            t == lastToken.token
            soon == b.expires_at <= authNow + REFRESH_BUFFER
        IN  /\ t.kind # "key"
            /\ ~soon => (t.kind = "bearer" /\ t.access = b.access /\ a = b)
            /\ (soon /\ b.refresh /\ lastToken.outcome = "ok") =>
                  /\ t.kind = "bearer" /\ t.access = a.access
                  /\ a.access # b.access /\ a.expires_at > authNow
            /\ (soon /\ (~b.refresh \/ lastToken.outcome = "failed")) =>
                  (t.kind = "none" /\ a = b)

\* C14 (as claimed): save_message commits the Message row and the
\* message_count increment before it attempts the vector upsert; a failing
\* upsert leaves the committed row in place and save_message returns the
\* message id normally; a relational failure rolls back, is re-raised, and no
\* vector upsert is made.
C14_ReturnsIdAfterVectorFailure ==
    \A c \in Callers :
        /\ saves[c].upsert # "none" => saves[c].committed
        /\ (saves[c].pc = "done" /\ saves[c].committed /\ saves[c].upsert = "failed") =>
              (saves[c].row_after /\ saves[c].result = "returned" /\ saves[c].value = "id")
        /\ (saves[c].pc = "done" /\ ~saves[c].committed) =>
              (saves[c].result = "raised" /\ saves[c].upsert = "none")

\* C14 (amended): as above, except that save_message returns normally with no
\* value (None) after a failed upsert.
C14_VectorFailureKeepsCommit ==
    \A c \in Callers :
        /\ saves[c].upsert # "none" => saves[c].committed
        /\ saves[c].pc = "committed" =>
              /\ \E m \in messages : m.id = saves[c].msg /\ m.session = saves[c].session
              /\ sessions[saves[c].session].had >= 1
        /\ (saves[c].pc = "done" /\ saves[c].committed /\ saves[c].upsert = "failed") =>
              (saves[c].row_after /\ saves[c].result = "returned" /\ saves[c].value = "None")
        /\ (saves[c].pc = "done" /\ ~saves[c].committed) =>
              /\ saves[c].result = "raised" /\ saves[c].upsert = "none"
              /\ saves[c].msg = 0

\* A save_message whose upsert failed has returned, its row committed into a
\* session that already held a message.
C14_Witness ==
    \E c \in Callers : /\ saves[c].pc = "done" /\ saves[c].upsert = "failed"
                       /\ saves[c].row_after /\ saves[c].result = "returned"
                       /\ sessions[saves[c].session].had = 2

\* C15 (as claimed): in every reachable state each Session's message_count
\* equals the number of Message rows with that session id.
C15_MessageCountIsRowCount ==
    \A i \in SessionIds :
        sessions[i].status # "none" => sessions[i].message_count = Cardinality(RowsOf(i))

\* C16 (as claimed): after any interleaving of save_message calls each user has
\* at most one open session, and a save_message for a user who has an open
\* session stores its message there instead of creating a session.
C16_OneOpenSessionPerUser ==
    /\ \A u \in UserIds : Cardinality(OpenSessions(u)) <= 1
    /\ \A c \in Callers : ~saves[c].beside_open

\* C17 (as claimed): after any number of compress_old_sessions runs, including
\* runs that fail part-way, a session has at most one CompressedMemory, has one
\* exactly when its summary is set, that memory's original_message_count is the
\* number of messages the session had, no Message row of a compressed session
\* remains, and no step compresses, stamps or empties an open or recent session.
C17_CompressionIsExactlyOnce ==
    /\ [](\A i \in SessionIds :
            /\ Len(compressed[i]) <= 1
            /\ (Len(compressed[i]) = 1) <=> (sessions[i].status # "none" /\ sessions[i].summary)
            /\ Len(compressed[i]) = 1 =>
                  /\ compressed[i][1] = sessions[i].had
                  /\ RowsOf(i) = {})
    /\ [][\A i \in SessionIds :
            sessions[i].status \in {"open", "recent"} =>
                /\ compressed'[i] = compressed[i]
                /\ sessions'[i].summary = sessions[i].summary
                /\ RowsOf(i) \subseteq messages']_vars

\* A run of compress_old_sessions failed part-way: it compressed one session
\* of two messages and left the user's other old session with its rows.
C17_Witness ==
    /\ lastCompress.raised /\ lastCompress.done # {}
    /\ \E i \in SessionIds : /\ Len(compressed[i]) = 1 /\ sessions[i].summary
                             /\ compressed[i][1] = 2
    /\ \E i \in SessionIds : /\ sessions[i].status = "old" /\ ~sessions[i].summary
                             /\ RowsOf(i) # {}

\* C18 (as claimed): get_relevant_context(u, q, k) never returns an entry whose
\* metadata user_id differs from u.
C18_ContextIsTheUsersOwn ==
    lastSearch.user # "none" =>
        \A r \in lastSearch.results : r.user_id = lastSearch.user

\* C19 (as claimed): once ingest has returned parent id p, a delete_document(p)
\* the store accepts leaves no entry whose parent_doc_id is p, whatever the
\* length of the text.
C19_DeleteRemovesEveryChunk ==
    (/\ lastDoc.op = "delete" /\ lastDoc.store_ok
     /\ lastDoc.doc \in 1..Len(ingested)
     /\ ingested[lastDoc.doc].returned) =>
        ~ \E v \in vectors : v.kind = "chunk" /\ v.doc = lastDoc.doc

\* C20 (as claimed): for any message list and budget B, truncate_context
\* returns a list whose contents total at most 4*B characters or, when the
\* system messages alone exceed 4*B characters, exactly the first system
\* message.
C20_TruncatedFitsOrLeadSystem ==
    trimmed.pc = "done" =>
        \/ TotalChars(trimmed.result) <= 4 * trimmed.max_tokens
        \/ /\ system_chars(trimmed.messages) > 4 * trimmed.max_tokens
           /\ trimmed.result = <<system_messages(trimmed.messages)[1]>>

\* A call whose system messages exceed the budget returned only the first of
\* two system messages, over the budget by itself.
C20_Witness ==
    /\ trimmed.pc = "done"
    /\ Len(system_messages(trimmed.messages)) = 2
    /\ Len(trimmed.result) = 1
    /\ TotalChars(trimmed.result) > 4 * trimmed.max_tokens

\* C28 (as claimed): for any task type other than reasoning, code, fast,
\* multimodal and vision, route returns the engine route("reasoning") returns
\* under the same availability.
C28_OtherTasksRouteAsReasoning ==
    [][\A t \in TaskTypes :
         (/\ Route(t)
          /\ NormalizeTask(t) \notin {"reasoning", "code", "fast", "multimodal", "vision"})
            => lastRoute'.result = route(providerEnv, "reasoning")]_vars

\* C30 (as claimed): request_confirm returns true only on a "yes" reply that
\* was posted after that request's confirmation message was sent: a reply
\* already in the queue when the message went out (one that ended an earlier
\* round-trip included) is never the one it returns on, whatever transport
\* failures occur while recording the highest update id or acknowledging.
C30_TrueOnlyOnFreshYes ==
    (confirm.pc = "done" /\ confirm.result = "true") =>
        /\ ReplyText(confirm.reply) = <<"y", "e", "s">>
        /\ ~confirm.reply.stale

\* C26 (as claimed): should_follow_up(id) is true exactly when the thread
\* exists, is waiting and was last updated an hour or more ago.
C26_FollowUpIffWaitingForAnHour ==
    \A id \in ThreadIds :
        should_follow_up(id) <=>
            /\ threads[id].state = "waiting"
            /\ SecondsBetween(clock, threads[id].updated_at) >= 3600

\* The three conditions of a time_based trigger other than the cooldown: it
\* is enabled, the current HH:MM is the configured one, and the current
\* weekday is one of the configured days when days are given.
TimedDue ==
    /\ timed.enabled
    /\ Hour(timed.now) = timed.condition.hour
    /\ Minute(timed.now) = timed.condition.minute
    /\ (timed.condition.days = {} \/ day_names[Weekday(timed.now) + 1] \in timed.condition.days)

\* C27 (as claimed): an enabled time_based trigger fires exactly when the
\* current HH:MM equals the configured time, the weekday is in days when days
\* are given, and last_fired is null or more than 23 hours in the past.
C27_FiresIffDueAndMoreThan23Hours ==
    timed.pc = "done" =>
        (timed.result <=>
            /\ TimedDue
            /\ \/ timed.last_fired = Never
               \/ SecondsBetween(timed.now, timed.last_fired[1]) > 23 * 3600)

\* C27 (amended): an enabled time_based trigger fires exactly when the current
\* HH:MM equals the configured time, the weekday is in days when days are
\* given, and last_fired is null or 23 hours or more in the past.
C27_FiresIffDueAndAtLeast23Hours ==
    timed.pc = "done" =>
        (timed.result <=>
            /\ TimedDue
            /\ \/ timed.last_fired = Never
               \/ SecondsBetween(timed.now, timed.last_fired[1]) >= 23 * 3600)

\* A trigger marked fired exactly 23 hours before its configured time fired.
C27_Witness ==
    /\ timed.pc = "done" /\ timed.result
    /\ timed.last_fired # Never
    /\ SecondsBetween(timed.now, timed.last_fired[1]) = 23 * 3600

\* The policy section of the action a check call was made for.
CheckedSection == checked.config[CHOOSE s \in SectionsOf(checked.action) : TRUE]

\* C23 (as claimed): for every action of the typed set, a check whose checks
\* all pass returns allowed = true with requires_confirm equal to the
\* require_confirm flag of the action's section, false when the flag is
\* absent; an action whose only check is the section's enabled flag is
\* allowed whenever the section is enabled.
C23_AllowedCarriesSectionConfirmFlag ==
    (checked.pc = "done" /\ SectionsOf(checked.action) # {}) =>
        /\ checked.result.allowed =>
              checked.result.requires_confirm = DictGet(CheckedSection, "require_confirm")
        /\ (/\ checked.action \in {"input.control", "browser.search", "system.info"}
            /\ DictGet(CheckedSection, "enabled")) => checked.result.allowed

\* The ~ expansion of a path given to check.
ExpandedPath == ExpandUser(checked.details.path)

\* The operation flag of file_system the action needs (read, write, delete).
FileFlagOn ==
    CASE checked.action = "file.read" -> checked.config["file_system"].read
      [] checked.action = "file.write" -> checked.config["file_system"].write
      [] OTHER -> checked.config["file_system"].delete

\* C24 (as claimed): for file.read/write/delete with details.path present,
\* check denies whenever the path after ~ expansion starts with a blocked_paths
\* prefix, even if it also matches allowed_paths, and (the section and the
\* operation being enabled) the reason names blocked_paths; when allowed_paths
\* is non-empty, check denies every path that matches no allowed_paths prefix.
C24_BlockedAndUnlistedPathsDenied ==
    (/\ checked.pc = "done"
     /\ checked.action \in {"file.read", "file.write", "file.delete"}
     /\ checked.details.path # <<>>) =>
        LET section == checked.config["file_system"]
            is_blocked == \E b \in section.blocked_paths :
                              StartsWith(ExpandedPath, ExpandUser(b))
            is_listed == \E a \in section.allowed_paths :
                              StartsWith(ExpandedPath, ExpandUser(a))
        IN  /\ is_blocked => ~checked.result.allowed
            /\ (is_blocked /\ section.enabled /\ FileFlagOn) =>
                    checked.result.reason = "is in blocked_paths"
            /\ (section.allowed_paths # {} /\ ~is_listed) => ~checked.result.allowed

\* C22: a reload that fails leaves the cached snapshot exactly as it was, a
\* reload that succeeds replaces it by the validated document in one
\* assignment, and what a reader gets at any moment is the snapshot before
\* the reload or the one after it, whole: the cache holds nothing else while
\* a reload is in progress, and a reader copies from it only when no reload
\* holds the lock.
C22_ReloadIsAllOrNothing ==
    /\ [](reloader.pc \in {"read", "validate"} =>
            (loaderConfig = reloader.before /\ reloader.lock = "reload"))
    /\ []((reloader.pc = "done" /\ reloader.outcome \in {"failed", "RuntimeError"}) =>
            reloader.after = reloader.before)
    /\ []((reloader.pc = "done" /\ reloader.outcome = "ok") =>
            reloader.after = [loaded |-> TRUE, doc |-> reloader.raw.doc])
    /\ [][reloader'.seen # reloader.seen =>
            (reloader.lock = "free" /\ reloader'.seen = loaderConfig)]_vars

\* A reload failed on a file that no longer validates while the cache held an
\* earlier document, which it still holds.
C22_Witness ==
    /\ reloader.pc = "done" /\ reloader.outcome = "failed"
    /\ reloader.raw.state = "invalid"
    /\ reloader.before.loaded /\ loaderConfig = reloader.before

\* The place of each kind of message in the list build returns.
BuiltRank(kind) ==
    CASE kind = "persona" -> 1 [] kind = "rag" -> 2 [] kind = "relevant" -> 3
      [] kind = "history" -> 4 [] OTHER -> 5

BuiltOfKind(kind) == { i \in 1..Len(built.result) : built.result[i].kind = kind }

\* C21: build returns a list that starts with the persona system message and
\* ends with the current user turn; between them come, in this order, at most
\* one RAG system message, at most one relevant-memory system message and at
\* most 20 history messages, the newest ones, oldest first; a subsystem
\* that fails leaves out its own block and nothing else.
C21_BuildOrderAndIsolation ==
    built.pc = "done" =>
        LET r == built.result
        IN  /\ Len(r) >= 2
            /\ r[1] = BuiltMessage("system", "persona", 0)
            /\ r[Len(r)] = BuiltMessage("user", "prompt", 0)
            /\ BuiltOfKind("persona") = {1} /\ BuiltOfKind("prompt") = {Len(r)}
            /\ \A i, j \in 1..Len(r) :
                  i < j => BuiltRank(r[i].kind) <= BuiltRank(r[j].kind)
            /\ Cardinality(BuiltOfKind("rag")) = (IF built.rag = "text" THEN 1 ELSE 0)
            /\ Cardinality(BuiltOfKind("relevant")) = (IF built.relevant = "hit" THEN 1 ELSE 0)
            /\ \A i \in BuiltOfKind("rag") \cup BuiltOfKind("relevant") : r[i].role = "system"
            /\ Cardinality(BuiltOfKind("history")) <= 20
            /\ \A i, j \in BuiltOfKind("history") : i < j => r[i].ts < r[j].ts
            /\ \A i \in BuiltOfKind("history") :
                  /\ r[i].ts > built.stored - 20
                  /\ r[i].role \in {"user", "assistant"}
            /\ built.history = "raises" => BuiltOfKind("history") = {}
            /\ (built.history = "ok" /\ built.pattern = "chat") =>
                  Cardinality(BuiltOfKind("history"))
                      = (IF built.stored < 20 THEN built.stored ELSE 20)

\* A build whose RAG lookup raised, for a user with more than 20 rows: the
\* list has the relevant-memory message and 20 history messages, and no RAG
\* message.
C21_Witness ==
    /\ built.pc = "done" /\ built.rag = "raises" /\ built.relevant = "hit"
    /\ built.stored > 20
    /\ Cardinality(BuiltOfKind("history")) = 20
    /\ BuiltOfKind("rag") = {}

\* C25: once stop() has cleared the flag and as long as start() does not set
\* it again, no cycle begins (a cycle in progress may finish), and every loop
\* thread eventually ends.
C25_StopEndsTheLoop ==
    /\ [][(~lifecycle.running /\ ~lifecycle'.running) =>
            /\ lifecycle'.cycles = lifecycle.cycles
            /\ \A t \in LoopIds : lifecycle'.pc[t] = "cycle" => lifecycle.pc[t] = "cycle"]_vars
    /\ (~lifecycle.running) ~>
          (lifecycle.running \/ \A t \in LoopIds : lifecycle.pc[t] \in {"none", "dead"})

\* A daemon that ran a cycle was stopped and its loop thread has ended.
C25_Witness ==
    /\ ~lifecycle.running /\ lifecycle.stops = 1 /\ lifecycle.cycles >= 1
    /\ \E t \in LoopIds : lifecycle.pc[t] = "dead"
    /\ \A t \in LoopIds : lifecycle.pc[t] \in {"none", "dead"}

\* C29 (as claimed): the polling loop of a device-flow login always ends, with
\* one of three outcomes: approval, with the token persisted; failure on
\* access_denied; failure on timeout; no token is persisted on a failure;
\* each slow_down raises the polling interval by 2 seconds, up to 30, and the
\* interval never exceeds 30 seconds.
C29_PollingEndsInClaimedOutcome ==
    /\ (device.pc = "polling") ~> (device.pc = "done")
    /\ [](device.pc = "done" =>
            /\ device.outcome \in {"approved", "access_denied", "timeout"}
            /\ device.persisted <=> (device.outcome = "approved"))
    /\ [](device.pc = "polling" => device.interval <= 30)
    /\ [][(device.pc = "polling" /\ device'.last \in {"slow_down", "status_429"}
             /\ device'.elapsed # device.elapsed) =>
            device'.interval = (IF device.interval + 2 < 30 THEN device.interval + 2 ELSE 30)]_vars

\* C32 (as claimed): when allowed_apps of the app_control section is not
\* empty, check("app.open", details) returns allowed = true only if
\* details.app, lowercased, is one of allowed_apps.
C32_AppOpenOnlyForAllowedApps ==
    (/\ checked.pc = "done" /\ checked.action = "app.open"
     /\ checked.config["app_control"].allowed_apps # {}
     /\ checked.result.allowed) =>
        Lower(checked.details.app)
            \in { Lower(a) : a \in checked.config["app_control"].allowed_apps }

\* The last n messages of a list, in their order.
LastOf(seq, n) == [ i \in 1..n |-> seq[Len(seq) - n + i] ]

\* C34 (as claimed): whenever the system messages' total characters do not
\* exceed the budget 4*max_tokens, truncate_context returns every system
\* message, in front and in original order, followed by a contiguous
\* most-recent run of the non-system messages in original order; only when the
\* system messages alone exceed the budget does it return just the first
\* system message.
C34_SystemKeptAndNewestSuffix ==
    (trimmed.pc = "done" /\ trimmed.messages # <<>>) =>
        LET sys == system_messages(trimmed.messages)
            conv == conversation_messages(trimmed.messages)
        IN  IF system_chars(trimmed.messages) <= 4 * trimmed.max_tokens
              THEN \E n \in 0..Len(conv) : trimmed.result = sys \o LastOf(conv, n)
              ELSE trimmed.result = <<sys[1]>>

\* C38 (as claimed): the vector entry save_message(u, ...) writes carries the
\* metadata user_id = u, whatever the caller's metadata holds, so no message is
\* attributed to a user other than the one it was saved for.
C38_VectorEntryCarriesTheSavingUser ==
    \A v \in vectors : v.kind = "msg" => v.user_id = v.owner

\* The messages of a list that carry the user input of this turn: the prompt
\* appended by build or by format_messages, and the row save_message wrote.
CarriesInput(m) ==
    \/ m.kind = "prompt"
    \/ m.kind = "history" /\ m.role = "user" /\ m.ts = turn.row

\* C37 (as claimed): in a user turn (save_message of the input, build, then
\* generate) the user input appears exactly once among the messages sent to the
\* provider.
C37_InputSentExactlyOnce ==
    turn.pc = "sent" =>
        Cardinality({ i \in DOMAIN turn.request.messages :
                        CarriesInput(turn.request.messages[i]) }) = 1

\* C40 (as claimed): with several system messages in the context, the content
\* of every one of them reaches the system parameter of the Anthropic request,
\* and the chat list holds user and assistant messages only.
C40_EverySystemMessageReachesSystem ==
    turn.pc = "sent" =>
        /\ \A i \in DOMAIN turn.messages :
              turn.messages[i].role = "system" =>
                  \E j \in DOMAIN turn.request.system : turn.request.system[j] = turn.messages[i]
        /\ \A i \in DOMAIN turn.request.messages :
              turn.request.messages[i].role \in {"user", "assistant"}

\* The ids of the triggers whose evaluation was true, in the order of the list.
EvaluatedTrue ==
    LET kept == SelectSeq(worker.evaluated, LAMBDA e : e.outcome = "true")
    IN  [ k \in 1..Len(kept) |-> kept[k].id ]

\* C31: an exception raised while one trigger is evaluated or processed leaves
\* the other triggers of the cycle evaluated and processed (a cycle that got to
\* its triggers evaluates every one of them and processes every one that
\* fired), and after an exception has escaped a cycle the loop, while the
\* daemon is running, starts another cycle after the sleep.
C31_FailuresAreContained ==
    /\ [](worker.pc = "sleep" /\ worker.entered =>
            /\ Len(worker.evaluated) = Len(TriggerOrder)
            /\ worker.fired = EvaluatedTrue
            /\ [ k \in 1..Len(worker.processed) |-> worker.processed[k].id ] = worker.fired)
    /\ \A n \in 1..(MaxWorkerCycles - 1) :
          (worker.pc = "sleep" /\ worker.escaped /\ worker.cycles = n)
              ~> (worker.cycles = n + 1 \/ ~worker.running)

\* A cycle that followed one an exception escaped from, in which one trigger's
\* evaluation raised, a later one fired, one trigger's processing raised and a
\* later one was sent.
C31_Witness ==
    /\ worker.pc = "sleep" /\ worker.entered /\ worker.recovered
    /\ worker.evaluated[1].outcome = "raises"
    /\ Len(worker.processed) = 2
    /\ worker.processed[1].outcome = "raises"
    /\ worker.processed[2].outcome = "sent"

\* C39 (as claimed): a trigger an add_trigger persisted through one instance is
\* still in the file after a mark_fired, add_trigger or remove_trigger of
\* another trigger by another instance that had loaded the file before the
\* addition.
C39_AddedTriggerSurvivesOtherInstances ==
    registry.last.op \in {"mark_fired", "add_trigger", "remove_trigger"} =>
        \A id \in registry.persisted :
            (id # registry.last.id /\ registry.last.engine \in registry.before[id]) =>
                id \in registry.file.ids

\* C35 (as claimed): whatever start() and stop() calls are made, at most one
\* loop thread of the daemon is executing cycles.
C35_AtMostOneLoopThreadInCycles ==
    Cardinality({ t \in LoopIds : lifecycle.pc[t] = "cycle" }) <= 1

====
